---- MODULE Spec2Model ----
(***************************************************************************)
(* Feedback aggregation pipelines of content-creator-agent.                *)
(*                                                                         *)
(*   runFeedbackLoopPipeline  (src/src/workers/feedbackLoop.pipeline.ts)   *)
(*       first version  (lines 65-266): Graph API with stub fallback       *)
(*       second version (lines 327-509): Graph API, failed posts skipped   *)
(*   runFeedbackCollectJob    (src/unnamed/part_000)                       *)
(*   runPublishPostPipeline   (src/unnamed/part_001)                       *)
(*                                                                         *)
(* The store (supabase) is four tables; every await of the code (a store   *)
(* call, a provider call, the read of a response body, the throttle pause) *)
(* is one step of the worker that makes it, so that concurrently running   *)
(* jobs and the clock interleave exactly at the awaits of the code. The    *)
(* step that ends an await also runs the code up to the next await: a      *)
(* clock value the next call carries (`since`, collected_at, published_at) *)
(* is read there, not when the store applies that call. A select without   *)
(* an order clause returns its rows in any order. Scores are JS numbers:   *)
(* the EMA is computed in IEEE-754 double precision.                       *)
(***************************************************************************)
EXTENDS Integers, Sequences, FiniteSets, TLC

\* ------------------------------------------------------------------ bounds
MaxRuns == 2         \* collection runs that get a batch in one behaviour
MaxPublish == 2      \* publish jobs that find draft and image in one behaviour
MaxClock == 8        \* last day the clock reaches
MaxFaults == 1       \* store and provider calls that fail in one behaviour
MaxEvents == 5       \* counted jobs and failed calls, together, in one behaviour
MaxScore == 5        \* largest score and observation the merge is applied to
MaxApply == 3        \* merges of the same observation in a row
MaxCount == 4        \* largest like and comment count a score is computed for

\* ------------------------------------------------------- program constants
LookbackDays == 7    \* `since`: now - 7 days
DefaultLimit == 50   \* job.payload.limit ?? 50
PendingLimit == 50   \* .limit(50) of the pending-feedback query
CommentWeight == 2   \* perf = likes + 2 * comments
StubLikes == 1       \* stub metrics { like_count: 1, comments_count: 0 }
StubComments == 0
EmaOld == 7          \* existing.perf_score * 0.7 (tenths)
EmaNew == 3          \* perf * 0.3 (tenths)

DayStep == 8         \* days that pass in one step of the clock

\* ------------------------------------------------------------ the world
Workers == {"w1", "w2"}
Posts == {"p1", "p2", "p3"}      \* ids of generated posts
DraftedPosts == {"p1", "p2"}     \* the posts drafted when the system starts

Null == "null"               \* a string column that is NULL
NoNum == 0 - 1               \* a numeric field that is missing or NULL
NoRow == [absent |-> TRUE]   \* maybeSingle() found no row; a value never set
NoMedia == [tag |-> "null"]  \* meta_post_id IS NULL

\* the response of a provider call that the job holds while it reads the body:
\* its HTTP status and, for media_publish, the id of the media published
NoResponse == [status |-> 0, id |-> NoMedia]
Response(ok, id) == [status |-> IF ok THEN 200 ELSE 400, id |-> id]
ResOk(res) == res.status = 200     \* res.ok

\* product_id and style of the generated posts (columns no job here writes)
ProductOf(p) == CASE p = "p1" -> 42 [] p = "p2" -> 42 [] OTHER -> 7
StyleOf(p) == CASE p = "p1" -> "boho" [] p = "p2" -> "" [] OTHER -> "boho"
Products == {ProductOf(p) : p \in Posts}

\* What the Graph API answers for the media of a post when the call succeeds.
GraphJson(p) ==
    CASE p = "p1" -> [like_count |-> 3, comments_count |-> 1, impressions |-> 10]
      [] p = "p2" -> [like_count |-> 0, comments_count |-> 2, impressions |-> NoNum]
      [] OTHER    -> [like_count |-> 2, comments_count |-> 0, impressions |-> 4]

\* A text column holds NULL or a string; a string is the sequence of its
\* characters, each the number of its UTF-16 code unit (104 is "h").
NullText == [null |-> TRUE, chars |-> <<>>]
Text(chars) == [null |-> FALSE, chars |-> chars]

\* Rows the store may answer for a product (table products, which no job here
\* writes): image_url and bild2..bild8, each NULL, empty, blank or a url with
\* or without scheme, in either case, with or without white space around it.
NoBild == <<NullText, NullText, NullText, NullText, NullText, NullText, NullText>>
ProductRows ==
    {\* "https://a.b"
     [image_url |-> Text(<<104, 116, 116, 112, 115, 58, 47, 47, 97, 46, 98>>), bild |-> NoBild],
     \* "HTTP://a.b"
     [image_url |-> Text(<<72, 84, 84, 80, 58, 47, 47, 97, 46, 98>>), bild |-> NoBild],
     \* NULL, bild2 "//a.b"
     [image_url |-> NullText, bild |-> [NoBild EXCEPT ![1] = Text(<<47, 47, 97, 46, 98>>)]],
     \* "", bild8 " a.b\n"
     [image_url |-> Text(<<>>), bild |-> [NoBild EXCEPT ![7] = Text(<<32, 97, 46, 98, 10>>)]],
     \* " \t" (taken: it is not empty), bild3 "http://c.d"
     [image_url |-> Text(<<32, 9>>), bild |-> [NoBild EXCEPT ![2] = Text(<<104, 116, 116, 112, 58, 47, 47, 99, 46, 100>>)]],
     \* NULL, bild5 "\f\v\u00A0Https://a.b \u2028\uFEFF"
     [image_url |-> NullText,
      bild |-> [NoBild EXCEPT ![4] =
                  Text(<<12, 11, 160, 72, 116, 116, 112, 115, 58,
                         47, 47, 97, 46, 98, 32, 8232, 65279>>)]],
     \* "\f" alone
     [image_url |-> Text(<<12>>), bild |-> NoBild],
     [image_url |-> Text(<<>>), bild |-> NoBild],
     [image_url |-> NullText, bild |-> NoBild]}

EmptyMetrics == [like_count |-> NoNum, comments_count |-> NoNum, impressions |-> NoNum]
StubMetrics ==
    [like_count |-> StubLikes, comments_count |-> StubComments, impressions |-> NoNum]

\* -------------------------------------------------------- pure functions
\* Number(x || 0), x ?? 0 on a count that is a number or missing
NumOr0(x) == IF x = NoNum THEN 0 ELSE x

\* fetchIgMetrics keeps like_count and comments_count of the answer
IgMetrics(json) ==
    [like_count |-> NumOr0(json.like_count),
     comments_count |-> NumOr0(json.comments_count),
     impressions |-> NoNum]

\* mutant: comments weigh as much as likes
computePerfScore_Unweighted(likes, comments) == likes + comments

computePerfScore(likes, comments) == likes + CommentWeight * comments

\* perf of a FeedbackResult: (like_count ?? 0) + 2 * (comments_count ?? 0)
ResultPerf(m) == computePerfScore(NumOr0(m.like_count), NumOr0(m.comments_count))

Min(a, b) == IF a < b THEN a ELSE b

\* a text value that is neither null nor the empty string
Truthy(x) == ~x.null /\ x.chars # <<>>

\* product.image_url || product.bild2 || ... || product.bild8
FirstImage(product) ==
    LET set == SelectSeq(<<product.image_url>> \o product.bild, Truthy)
    IN  IF set = <<>> THEN product.bild[Len(product.bild)] ELSE Head(set)

\* String.prototype.trim() drops the white space and the line terminators of
\* ECMAScript at both ends: tab, line feed, vertical tab, form feed, carriage
\* return, space, U+00A0, U+1680, U+2000..U+200A, U+2028, U+2029, U+202F,
\* U+205F, U+3000, U+FEFF
WhiteSpace ==
    {9, 10, 11, 12, 13, 32, 160, 5760} \cup (8192..8202)
        \cup {8232, 8233, 8239, 8287, 12288, 65279}
RECURSIVE TrimStart(_)
TrimStart(s) ==
    IF s # <<>> /\ Head(s) \in WhiteSpace THEN TrimStart(Tail(s)) ELSE s
RECURSIVE TrimEnd(_)
TrimEnd(s) ==
    IF s # <<>> /\ s[Len(s)] \in WhiteSpace
    THEN TrimEnd(SubSeq(s, 1, Len(s) - 1)) ELSE s
Trim(s) == TrimEnd(TrimStart(s))

startsWith(s, prefix) ==
    Len(s) >= Len(prefix) /\ SubSeq(s, 1, Len(prefix)) = prefix

\* the letters of the pattern, which the flag i lets match in either case:
\* H, T, P, S become h, t, p, s
LowerOf(c) == IF c \in {72, 84, 80, 83} THEN c + 32 ELSE c
RECURSIVE Lower(_)
Lower(s) == IF s = <<>> THEN s ELSE <<LowerOf(Head(s))>> \o Lower(Tail(s))

\* /^https?:\/\//i.test(url): "http://" or "https://" at the start
HasHttpScheme(url) ==
    \/ startsWith(Lower(url), <<104, 116, 116, 112, 58, 47, 47>>)
    \/ startsWith(Lower(url), <<104, 116, 116, 112, 115, 58, 47, 47>>)

\* null for no value; the trimmed value, and a url without http(s):// gets
\* "https:" (and "//" unless it starts with it) in front
normalizeImageUrl(raw) ==
    IF ~Truthy(raw) THEN NullText
    ELSE LET url == Trim(raw.chars) IN
         IF HasHttpScheme(url) THEN Text(url)
         ELSE Text(<<104, 116, 116, 112, 115, 58>>
                   \o (IF startsWith(url, <<47, 47>>) THEN url
                       ELSE <<47, 47>> \o url))

\* JS numbers are IEEE-754 binary64. A score is never negative here, and no
\* value leaves the normal range, so a number is m * 2^e with m a natural number
\* of at most 53 bits: [m |-> digits of m in base LimbBase, lowest first, m odd,
\* e |-> e]; zero is [m |-> <<>>, e |-> 0]. Every operation rounds its exact
\* result to 53 bits, to nearest, ties to even.
Precision == 53
LimbBits == 14
LimbBase == 16384

RECURSIVE Pow2(_)
Pow2(k) == IF k = 0 THEN 1 ELSE 2 * Pow2(k - 1)

\* natural numbers of any size, as digit sequences without leading zero digit
RECURSIVE BTrim(_)
BTrim(a) ==
    IF a # <<>> /\ a[Len(a)] = 0 THEN BTrim(SubSeq(a, 1, Len(a) - 1)) ELSE a

RECURSIVE BAddC(_, _, _)
BAddC(a, b, c) ==
    IF a = <<>> /\ b = <<>> THEN (IF c = 0 THEN <<>> ELSE <<c>>)
    ELSE LET x == IF a = <<>> THEN 0 ELSE Head(a)
             y == IF b = <<>> THEN 0 ELSE Head(b)
             t == x + y + c
         IN  <<t % LimbBase>> \o BAddC(IF a = <<>> THEN a ELSE Tail(a),
                                       IF b = <<>> THEN b ELSE Tail(b),
                                       t \div LimbBase)
BAdd(a, b) == BAddC(a, b, 0)

\* a * k + c for one digit k
RECURSIVE BMulLimb(_, _, _)
BMulLimb(a, k, c) ==
    IF a = <<>> THEN (IF c = 0 THEN <<>> ELSE <<c>>)
    ELSE LET t == Head(a) * k + c
         IN  <<t % LimbBase>> \o BMulLimb(Tail(a), k, t \div LimbBase)

RECURSIVE BMul(_, _)
BMul(a, b) ==
    IF a = <<>> \/ b = <<>> THEN <<>>
    ELSE LET rest == BMul(a, Tail(b))
         IN  BAdd(BTrim(BMulLimb(a, Head(b), 0)),
                  IF rest = <<>> THEN rest ELSE <<0>> \o rest)

\* quotient and remainder of (r * LimbBase^Len(a) + a) by d, 0 < d <= LimbBase
RECURSIVE BDivRem(_, _, _)
BDivRem(a, d, r) ==
    IF a = <<>> THEN [q |-> <<>>, r |-> r]
    ELSE LET t == r * LimbBase + a[Len(a)]
             rest == BDivRem(SubSeq(a, 1, Len(a) - 1), d, t % d)
         IN  [q |-> Append(rest.q, t \div d), r |-> rest.r]

\* a * 2^s
Shl(a, s) ==
    IF a = <<>> THEN a
    ELSE [i \in 1..(s \div LimbBits) |-> 0] \o BTrim(BMulLimb(a, Pow2(s % LimbBits), 0))

\* a \div 2^s, and whether a bit was shifted out
Shr(a, s) ==
    LET limbs == Min(s \div LimbBits, Len(a))
        dr == BDivRem(SubSeq(a, limbs + 1, Len(a)), Pow2(s % LimbBits), 0)
    IN  [q |-> BTrim(dr.q),
         inexact |-> dr.r # 0 \/ \E i \in 1..limbs : a[i] # 0]

RECURSIVE Bits(_)
Bits(x) == IF x = 0 THEN 0 ELSE 1 + Bits(x \div 2)
BitLen(a) == IF a = <<>> THEN 0 ELSE LimbBits * (Len(a) - 1) + Bits(a[Len(a)])
IsOdd(a) == a # <<>> /\ a[1] % 2 = 1

RECURSIVE TrailingZeros(_)
TrailingZeros(x) == IF x % 2 = 1 THEN 0 ELSE 1 + TrailingZeros(x \div 2)

\* the one representation of m * 2^e: m odd
RECURSIVE Canon(_, _)
Canon(m, e) ==
    IF m = <<>> THEN [m |-> <<>>, e |-> 0]
    ELSE IF Head(m) = 0 THEN Canon(Tail(m), e + LimbBits)
    ELSE LET z == TrailingZeros(Head(m)) IN [m |-> Shr(m, z).q, e |-> e + z]

\* the double nearest to n * 2^e (plus a positive fraction of 2^e when `sticky`)
RoundToDouble(n, e, sticky) ==
    LET len == BitLen(n) IN
    IF len <= Precision THEN Canon(n, e)
    ELSE LET s == len - Precision
             h == Shr(n, s - 1)
             guard == IsOdd(h.q)
             q == Shr(h.q, 1).q
             up == guard /\ (h.inexact \/ sticky \/ IsOdd(q))
         IN  Canon(IF up THEN BAdd(q, <<1>>) ELSE q, e + s)

\* a * b and a + b of two numbers
DMul(a, b) == RoundToDouble(BMul(a.m, b.m), a.e + b.e, FALSE)
DAdd(a, b) ==
    LET e == Min(a.e, b.e)
    IN  RoundToDouble(BAdd(Shl(a.m, a.e - e), Shl(b.m, b.e - e)), e, FALSE)

\* the digits of a natural number
RECURSIVE Limbs(_)
Limbs(n) == IF n = 0 THEN <<>> ELSE <<n % LimbBase>> \o Limbs(n \div LimbBase)

\* the number a whole count n is: the double nearest to it
DoubleOf(n) == RoundToDouble(Limbs(n), 0, FALSE)

\* the number a literal n/d (0.7 is 7/10) denotes: the double nearest to it
DecimalLiteral(n, d) ==
    LET dr == BDivRem(Shl(<<n>>, 5 * LimbBits), d, 0)
    IN  RoundToDouble(BTrim(dr.q), 0 - 5 * LimbBits, dr.r # 0)

\* mutant: `if (existing.perf_score)`: a score of 0 counts as no score
mergeProductScore_FalsyZero(existing, perf) ==
    IF existing = NoRow \/ existing.m = <<>>
    THEN DoubleOf(perf)
    ELSE DAdd(DMul(existing, DecimalLiteral(EmaOld, 10)),
              DMul(DoubleOf(perf), DecimalLiteral(EmaNew, 10)))

\* existing.perf_score * 0.7 + perf * 0.3, or perf when there is no score
mergeProductScore(existing, perf) ==
    IF existing = NoRow
    THEN DoubleOf(perf)
    ELSE DAdd(DMul(existing, DecimalLiteral(EmaOld, 10)),
              DMul(DoubleOf(perf), DecimalLiteral(EmaNew, 10)))

\* totalPerf / totalImpressions as a reduced fraction n/d
RECURSIVE Gcd(_, _)
Gcd(a, b) == IF b = 0 THEN a ELSE Gcd(b, a % b)
Ratio(a, b) == [n |-> a \div Gcd(a, b), d |-> b \div Gcd(a, b)]
Engagement(totalPerf, totalImpressions) ==
    IF totalImpressions > 0 THEN Ratio(totalPerf, totalImpressions) ELSE Ratio(0, 1)

Take(s, n) == SubSeq(s, 1, Min(n, Len(s)))
Range(s) == {s[i] : i \in 1..Len(s)}

\* ------------------------------------------------------------------ state
VARIABLES
    generated_posts,       \* table generated_posts: post id -> row
    post_feedback,         \* table post_feedback: a set of rows
    product_performance,   \* table product_performance: product_id -> perf_score
    style_performance,     \* table style_performance: <<style, channel>> -> row
    nextId,                \* next post_feedback.id the store hands out
    now,                   \* the clock, in days
    metaEnabled,           \* META_ACCESS_TOKEN is configured
    dryRun,                \* META_PUBLISH_DRY_RUN
    faultsLeft,            \* store and provider calls that may still fail
    run,                   \* worker -> the locals of the job it is running; `stamp`
                           \* is the clock as read when the pending call was built
    log,                   \* worker -> what its current or last job did (history)
    runs,                  \* collection runs that selected a batch so far
    pubs,                  \* publish jobs that found their draft and its image so far
    mediaSeq,              \* media the platform has published so far, per post
    lastFb,                \* per post: the last successful post_feedback write
    prodHist,              \* per product: the writes of its perf_score so far
    race,                  \* the last read, read, write, write on one product
    styleObs,              \* per style key: sum of the observations upserted
    ema,                   \* a product's score under repeated merges of one observation
    folds                  \* per post: aggregate upserts runFeedbackCollectJob made for it

vars == <<generated_posts, post_feedback, product_performance, style_performance,
          nextId, now, metaEnabled, dryRun, faultsLeft, run, log, runs, pubs,
          mediaSeq, lastFb, prodHist, race, styleObs, ema, folds>>

aggHist == <<prodHist, race, styleObs, ema, folds>>

store == <<generated_posts, post_feedback, product_performance, style_performance,
           nextId>>
config == <<metaEnabled, dryRun>>

\* job.payload.limit of a runFeedbackLoopPipeline job: missing, or 1
PayloadLimits == {NoNum, 1}

\* a query without an order clause: the store returns the rows in any order
Orders(S) ==
    {o \in [1..Cardinality(S) -> S] : \A i, j \in 1..Cardinality(S) : o[i] = o[j] => i = j}
Channels == {"IG"}
Styles == {StyleOf(p) : p \in Posts} \cup {"unknown"}
StyleKeys == Styles \X Channels

\* counted jobs and failed calls so far
Events == runs + pubs + (MaxFaults - faultsLeft)
\* a call may fail while the bounds leave room for one more failed call
MayFail == faultsLeft > 0 /\ Events < MaxEvents

\* Outcomes of a store call: TRUE = no error.
StoreOutcomes == IF MayFail THEN {TRUE, FALSE} ELSE {TRUE}
\* Outcomes of a Graph API call: without a credential the API refuses the call.
ProviderOutcomes ==
    IF ~metaEnabled THEN {FALSE} ELSE IF MayFail THEN {TRUE, FALSE} ELSE {TRUE}

\* a call that fails although it could have succeeded uses up one fault
StoreCall(ok) == faultsLeft' = IF ok THEN faultsLeft ELSE faultsLeft - 1
ProviderCall(ok) == faultsLeft' = IF ok \/ ~metaEnabled THEN faultsLeft ELSE faultsLeft - 1

IdleRun ==
    [pc |-> "idle", kind |-> "none", batch |-> <<>>, idx |-> 0, results |-> <<>>,
     metrics |-> EmptyMetrics, post |-> NoRow, existing |-> NoRow, perf |-> 0,
     readVer |-> 0, arg |-> Null, igMediaId |-> NoMedia,
     limit |-> NoNum, since |-> NoNum, stamp |-> NoNum, res |-> NoResponse]

NoLog ==
    [outcome |-> "none", kind |-> "none", sel |-> "none", batch |-> <<>>,
     prov |-> [p \in Posts |-> "none"],
     fb |-> [p \in Posts |-> "none"],
     fbm |-> [p \in Posts |-> NoRow],
     owner |-> [p \in Posts |-> "none"],
     foldP |-> [p \in Posts |-> NoNum],
     foldS |-> [p \in Posts |-> NoNum],
     aggFail |-> FALSE,
     wrote |-> FALSE,
     ret |-> "none"]

\* history of a product nobody has written: version 0
NoWrites == [ver |-> 0, readVer |-> NoNum, perf |-> NoNum]
NoObs == [impressions |-> 0, perf_score |-> 0]
NoFolds == [product |-> 0, style |-> 0]

DraftPost ==
    [status |-> "DRAFT", meta_post_id |-> NoMedia, channel_published |-> Null,
     published_at |-> NoNum]

Init ==
    /\ generated_posts = [p \in DraftedPosts |-> DraftPost]
    /\ post_feedback = {}
    /\ product_performance = [pid \in Products |-> NoRow]
    /\ style_performance = [k \in StyleKeys |-> NoRow]
    /\ nextId = 1
    /\ now = 0
    /\ metaEnabled \in BOOLEAN
    /\ dryRun \in BOOLEAN
    /\ faultsLeft = MaxFaults
    /\ run = [w \in Workers |-> IdleRun]
    /\ log = [w \in Workers |-> NoLog]
    /\ runs = 0
    /\ pubs = 0
    /\ mediaSeq = [p \in Posts |-> 0]
    /\ lastFb = [p \in Posts |-> NoRow]
    /\ prodHist = [pid \in Products |-> NoWrites]
    /\ race = NoRow
    /\ styleObs = [k \in StyleKeys |-> NoObs]
    /\ ema = NoRow
    /\ folds = [p \in Posts |-> NoFolds]

\* ------------------------------------------------------ store operations
\* .upsert(rec, { onConflict: "generated_post_id" }): the row of that post is
\* updated in place, or a new row is inserted.
FeedbackConflict(rows, rec) ==
    \E r \in rows : r.generated_post_id = rec.generated_post_id

\* mutant: the upsert ignores the conflict key and always inserts
UpsertFeedback_AlwaysInsert(rows, rec, id) == rows \cup {[rec EXCEPT !.id = id]}

UpsertFeedback(rows, rec, id) ==
    IF FeedbackConflict(rows, rec)
    THEN {IF r.generated_post_id = rec.generated_post_id
          THEN [rec EXCEPT !.id = r.id] ELSE r : r \in rows}
    ELSE rows \cup {[rec EXCEPT !.id = id]}

\* mutant: the update leaves collected_at out
UpdateFeedbackById_NoTimestamp(rows, id, metrics, at) ==
    {IF r.id = id THEN [r EXCEPT !.metrics = metrics] ELSE r : r \in rows}

\* .update({metrics, collected_at}).eq("id", id)
UpdateFeedbackById(rows, id, metrics, at) ==
    {IF r.id = id THEN [r EXCEPT !.metrics = metrics, !.collected_at = at] ELSE r
        : r \in rows}

\* .insert(rec): accepted, unless post_feedback has a unique key on
\* generated_post_id and the post already has a row
InsertFeedbackAllowed(unique, rows, rec) == ~unique \/ ~FeedbackConflict(rows, rec)

\* ----------------------------------------------- runFeedbackLoopPipeline
\* 1) generated_posts: PUBLISHED, meta_post_id not null, published in the window
\* (.gte never holds for a published_at that is NULL)
Eligible(p, since) ==
    /\ p \in DOMAIN generated_posts
    /\ generated_posts[p].status = "PUBLISHED"
    /\ generated_posts[p].meta_post_id # NoMedia
    /\ generated_posts[p].published_at # NoNum
    /\ generated_posts[p].published_at >= since

PostRow(p) ==
    [id |-> p, product_id |-> ProductOf(p), style |-> StyleOf(p),
     channel_published |-> generated_posts[p].channel_published,
     meta_post_id |-> generated_posts[p].meta_post_id]

MapSeq(s, F(_)) == [i \in 1..Len(s) |-> F(s[i])]

\* what the select may return: the eligible rows in some order, cut at `limit`
SelectPublished(limit, since) ==
    {Take(MapSeq(o, PostRow), limit) : o \in Orders({p \in Posts : Eligible(p, since)})}

\* p.channel_published || "IG"
ChannelOr(c) == IF c = Null \/ c = "" THEN "IG" ELSE c

FeedbackResult(p, metrics) ==
    [post_id |-> p.id, product_id |-> p.product_id, style |-> p.style,
     channel |-> ChannelOr(p.channel_published), ig_media_id |-> p.meta_post_id,
     metrics |-> metrics]

FeedbackRecord(r, at) ==
    [id |-> 0, generated_post_id |-> r.post_id, channel |-> r.channel,
     ig_media_id |-> r.ig_media_id, metrics |-> r.metrics, collected_at |-> at]

\* String.prototype.split with a separator of one character
\* the parts of s from position `from` on, the characters before position i
\* of the part under way holding no separator
RECURSIVE SplitFrom(_, _, _, _)
SplitFrom(s, sep, from, i) ==
    IF i > Len(s) THEN <<SubSeq(s, from, Len(s))>>
    ELSE IF SubSeq(s, i, i) = sep
         THEN <<SubSeq(s, from, i - 1)>> \o SplitFrom(s, sep, i + 1, i + 1)
         ELSE SplitFrom(s, sep, from, i + 1)
split(s, sep) == SplitFrom(s, sep, 1, 1)

\* `${r.style || "unknown"}|${r.channel}`: the key of styleMap
styleKey(r) ==
    (IF r.style = "" \/ r.style = Null THEN "unknown" ELSE r.style) \o "|" \o r.channel

\* const [style, channel] = key.split("|"): the first two parts of the key
\* (a key has at least two: it was built around one "|")
SplitKey(key) == LET parts == split(key, "|") IN <<parts[1], parts[2]>>

\* style and channel of the row that is upserted for a result
StyleKey(r) == SplitKey(styleKey(r))

\* mutant: `map.set(key, perf)`: the last post of a key replaces the total
SumPerf_LastWins(rs) ==
    IF rs = <<>> THEN 0 ELSE ResultPerf(rs[Len(rs)].metrics)

\* lines 206-213: (map.get(key) ?? 0) + perf over the results of a key
RECURSIVE SumPerf(_)
SumPerf(rs) ==
    IF rs = <<>> THEN 0 ELSE ResultPerf(Head(rs).metrics) + SumPerf(Tail(rs))

\* prodMap: product_id -> sum of perf over the results
ProdMap(rs) ==
    [pid \in {rs[i].product_id : i \in 1..Len(rs)} |->
        LET Keep(r) == r.product_id = pid IN SumPerf(SelectSeq(rs, Keep))]

\* styleMap: `style|channel` -> sum of perf over the results
StyleMap(rs) ==
    [k \in {styleKey(rs[i]) : i \in 1..Len(rs)} |->
        LET Keep(r) == styleKey(r) = k IN SumPerf(SelectSeq(rs, Keep))]

\* lines 237-248: styleUpdates, as the style and channel of the row of each
\* key of styleMap
StyleUpdates(styleMap) == [key \in DOMAIN styleMap |-> SplitKey(key)]

\* the keys of styleMap whose row has the style and channel k
KeysOfRow(styleUpdates, k) == {key \in DOMAIN styleUpdates : styleUpdates[key] = k}

\* an upsert of an array that holds two rows of one style and channel is
\* refused as a whole (the command cannot affect a row a second time)
RowsDistinct(styleUpdates) ==
    \A k1, k2 \in DOMAIN styleUpdates : styleUpdates[k1] = styleUpdates[k2] => k1 = k2

Idle(w) == run[w].pc = "idle"

\* what a job that returns hands to its caller: runFeedbackLoopPipeline is
\* Promise<void> and runFeedbackCollectJob has no return value (every `return;`
\* is bare); runPublishPostPipeline returns {igMediaId, channel}
Undefined == "undefined"
ReturnValue(kind) == IF kind = "publish" THEN "media" ELSE Undefined

\* the job returns (or throws): its locals go; the history stays until the
\* caller has taken the outcome
Finish(w, how, lg) ==
    /\ run' = [run EXCEPT ![w] = [IdleRun EXCEPT !.pc = "done"]]
    /\ log' = [log EXCEPT ![w] = [lg EXCEPT !.outcome = how,
                                            !.ret = IF how = "returned"
                                                    THEN ReturnValue(lg.kind)
                                                    ELSE "none"]]

\* mutant: an empty selection is an error of the run
ReturnEmpty_Raise(w, lg) == Finish(w, "raised", lg)

\* lines 92-95 (posts) / 36-39 (pending rows): nothing selected, log and return
ReturnEmpty(w, lg) == Finish(w, "returned", lg)

\* the caller takes the outcome of the job: the worker is free again
Settle(w) ==
    /\ run[w].pc = "done"
    /\ run' = [run EXCEPT ![w] = IdleRun]
    /\ log' = [log EXCEPT ![w] = NoLog]
    /\ UNCHANGED <<store, now, config, faultsLeft, runs, pubs, mediaSeq, lastFb, aggHist>>

\* lines 65-74 / 327-336: the job starts; limit = job.payload?.limit ?? 50 and
\* `since` (now - 7 days) are computed, then the select is sent
FL_Start(w, version, payloadLimit) ==
    /\ Idle(w)
    /\ runs < MaxRuns /\ Events < MaxEvents
    /\ run' = [run EXCEPT ![w] =
           [IdleRun EXCEPT !.pc = "fl_select", !.kind = version,
                           !.limit = IF payloadLimit = NoNum THEN DefaultLimit
                                     ELSE payloadLimit,
                           !.since = now - LookbackDays]]
    /\ log' = [log EXCEPT ![w] = [NoLog EXCEPT !.kind = version, !.outcome = "running"]]
    /\ UNCHANGED <<store, now, config, faultsLeft, runs, pubs, mediaSeq, lastFb, aggHist>>

\* lines 119-152 / 380-400: the iteration of the metrics loop for the post at
\* r.idx begins: with a credential the GET of fetchIgMetrics is sent; without
\* one the stub is pushed to results and the throttle pause begins
FL_NextPost(w, r, lg) ==
    LET p == r.batch[r.idx] IN
    IF metaEnabled
    THEN /\ run' = [run EXCEPT ![w] = [r EXCEPT !.pc = "fl_fetch"]]
         /\ log' = [log EXCEPT ![w] = lg]
    ELSE /\ run' = [run EXCEPT ![w] =
                [r EXCEPT !.pc = "fl_pause",
                          !.results = Append(@, FeedbackResult(p, StubMetrics))]]
         /\ log' = [log EXCEPT ![w] = [lg EXCEPT !.prov[p.id] = "stub"]]

\* lines 74-127 / 336-387: the initial read; its error is thrown to the caller;
\* with rows, the loop over them begins
FL_Select(w) ==
    /\ run[w].pc = "fl_select"
    /\ \E ok \in StoreOutcomes :
        /\ StoreCall(ok)
        /\ \E posts \in SelectPublished(run[w].limit, run[w].since) :
           LET lg == [log[w] EXCEPT !.sel = IF ok THEN "ok" ELSE "error",
                                    !.batch = IF ok THEN posts ELSE <<>>]
           IN  /\ runs' = IF ok /\ Len(posts) > 0 THEN runs + 1 ELSE runs
               /\ IF ~ok THEN Finish(w, "raised", lg)
                  ELSE IF Len(posts) = 0 THEN ReturnEmpty(w, lg)
                  ELSE FL_NextPost(w, [IdleRun EXCEPT !.kind = run[w].kind,
                                                      !.batch = posts, !.idx = 1], lg)
    /\ UNCHANGED <<store, now, config, pubs, mediaSeq, lastFb, aggHist>>

\* lines 128-139: the first version pushes the stub metrics for the post;
\* lines 401-406: the second version only logs, the post gets no result
\* mutant: no version falls back to the stub
OnProviderError_Skip(version, results, p) == results

OnProviderError(version, results, p) ==
    IF version = "loop1" THEN Append(results, FeedbackResult(p, StubMetrics))
    ELSE results

\* history: one more successful write of the post's feedback record
Written(p, metrics, at) ==
    lastFb' = [lastFb EXCEPT ![p] =
                 [metrics |-> metrics, at |-> at,
                  n |-> IF @ = NoRow THEN 1 ELSE @.n + 1]]

\* line 44 / 306: the Graph API answers the GET, with status 200 or an error
\* status; the job goes on to read the body
FL_Fetch(w) ==
    /\ run[w].pc = "fl_fetch"
    /\ \E ok \in ProviderOutcomes :
        /\ ProviderCall(ok)
        /\ run' = [run EXCEPT ![w].res = Response(ok, NoMedia), ![w].pc = "fl_body"]
    /\ UNCHANGED <<store, log, now, config, runs, pubs, mediaSeq, lastFb, aggHist>>

\* lines 45-63, 127-161 / 307-325, 387-409: the body is read (res.text()); the
\* metrics of a 200 are pushed to results, an error status is thrown and
\* caught; the throttle pause begins
FL_ReadBody(w) ==
    /\ run[w].pc = "fl_body"
    /\ LET p == run[w].batch[run[w].idx]
           ok == ResOk(run[w].res)
       IN  /\ run' = [run EXCEPT
                  ![w].results =
                      IF ok
                      THEN Append(@, FeedbackResult(p,
                                        IgMetrics(GraphJson(p.meta_post_id.post))))
                      ELSE OnProviderError(run[w].kind, @, p),
                  ![w].res = NoResponse,
                  ![w].pc = "fl_pause"]
           /\ log' = [log EXCEPT ![w].prov[p.id] = IF ok THEN "ok" ELSE "fail"]
    /\ UNCHANGED <<store, now, config, faultsLeft, runs, pubs, mediaSeq, lastFb, aggHist>>

\* lines 161-189 / 409-430: the pause ends: the next post's iteration begins,
\* or, after the last, the run returns when there is no result, and else
\* builds the first feedback record (collected_at: new Date())
FL_Pause(w) ==
    /\ run[w].pc = "fl_pause"
    /\ IF run[w].idx < Len(run[w].batch)
       THEN FL_NextPost(w, [run[w] EXCEPT !.idx = @ + 1], log[w])
       ELSE IF Len(run[w].results) = 0 THEN Finish(w, "returned", log[w])
       ELSE /\ run' = [run EXCEPT ![w].idx = 1, ![w].pc = "fl_feedback",
                                  ![w].stamp = now]
            /\ UNCHANGED log
    /\ UNCHANGED <<store, now, config, faultsLeft, runs, pubs, mediaSeq, lastFb, aggHist>>

\* lines 178-199 / 421-440: one upsert per result, stamped with the clock as it
\* was when the record was built; a failure is only logged
FL_UpsertFeedback(w) ==
    /\ run[w].pc = "fl_feedback"
    /\ LET r == run[w].results[run[w].idx]
           last == run[w].idx = Len(run[w].results)
           rec == FeedbackRecord(r, run[w].stamp)
       IN  \E ok \in StoreOutcomes :
            /\ StoreCall(ok)
            /\ /\ IF ok
                  THEN /\ post_feedback' = UpsertFeedback(post_feedback, rec, nextId)
                       /\ nextId' = IF FeedbackConflict(post_feedback, rec)
                                    THEN nextId ELSE nextId + 1
                       /\ Written(r.post_id, r.metrics, run[w].stamp)
                  ELSE UNCHANGED <<post_feedback, nextId, lastFb>>
               /\ run' = [run EXCEPT ![w].idx = IF last THEN 0 ELSE @ + 1,
                                     ![w].pc = IF last THEN "fl_products" ELSE @,
                                     ![w].stamp = IF last THEN NoNum ELSE now]
               /\ log' = [log EXCEPT ![w].fb[r.post_id] = IF ok THEN "ok" ELSE "fail",
                                     ![w].fbm[r.post_id] = IF ok THEN r.metrics ELSE @,
                                     ![w].wrote = @ \/ ok]
    /\ UNCHANGED <<generated_posts, product_performance, style_performance,
                   now, config, runs, pubs, mediaSeq, aggHist>>

\* lines 203-235 / 444-477: the accumulated product totals, one upsert
FL_UpsertProducts(w) ==
    /\ run[w].pc = "fl_products"
    /\ LET rs == run[w].results
           prodMap == ProdMap(rs)
       IN  \E ok \in StoreOutcomes :
            /\ StoreCall(ok)
            /\ /\ product_performance' =
                    IF ok
                    THEN [pid \in Products |->
                            IF pid \in DOMAIN prodMap THEN DoubleOf(prodMap[pid])
                            ELSE product_performance[pid]]
                    ELSE product_performance
               /\ prodHist' =
                    IF ok
                    THEN [pid \in Products |->
                            IF pid \in DOMAIN prodMap
                            THEN [ver |-> prodHist[pid].ver + 1, readVer |-> NoNum,
                                  perf |-> prodMap[pid]]
                            ELSE prodHist[pid]]
                    ELSE prodHist
               /\ log' = [log EXCEPT
                    ![w].foldP = IF ok
                                 THEN [p \in Posts |->
                                         IF \E i \in 1..Len(rs) : rs[i].post_id = p
                                         THEN ResultPerf((CHOOSE r \in Range(rs) :
                                                            r.post_id = p).metrics)
                                         ELSE @[p]]
                                 ELSE @,
                    ![w].aggFail = @ \/ ~ok,
                    ![w].wrote = @ \/ ok]
               /\ run' = [run EXCEPT ![w].pc = "fl_styles"]
    /\ UNCHANGED <<generated_posts, post_feedback, style_performance, nextId,
                   now, config, runs, pubs, mediaSeq, lastFb, race, styleObs, ema, folds>>

\* a style_performance row the upsert writes: perf_score only
StyleRowWithPerf(old, perf_score) ==
    IF old = NoRow
    THEN [impressions |-> NoNum, perf_score |-> perf_score, engagement |-> NoRow]
    ELSE [old EXCEPT !.perf_score = perf_score]

\* lines 237-266 / 480-509: the accumulated style totals, one upsert; return
FL_UpsertStyles(w) ==
    /\ run[w].pc = "fl_styles"
    /\ LET rs == run[w].results
           styleMap == StyleMap(rs)
           styleUpdates == StyleUpdates(styleMap)
           PerfOf(k) == styleMap[CHOOSE key \in KeysOfRow(styleUpdates, k) : TRUE]
       IN  \E answer \in StoreOutcomes :
            /\ StoreCall(answer)
            /\ LET ok == answer /\ RowsDistinct(styleUpdates) IN
               /\ style_performance' =
                    IF ok
                    THEN [k \in StyleKeys |->
                            IF KeysOfRow(styleUpdates, k) # {}
                            THEN StyleRowWithPerf(style_performance[k], PerfOf(k))
                            ELSE style_performance[k]]
                    ELSE style_performance
               /\ styleObs' =
                    IF ok
                    THEN [k \in StyleKeys |->
                            IF KeysOfRow(styleUpdates, k) # {}
                            THEN [styleObs[k] EXCEPT !.perf_score = @ + PerfOf(k)]
                            ELSE styleObs[k]]
                    ELSE styleObs
               /\ Finish(w, "returned",
                    [log[w] EXCEPT
                       !.foldS = IF ok
                                 THEN [p \in Posts |->
                                         IF \E i \in 1..Len(rs) : rs[i].post_id = p
                                         THEN ResultPerf((CHOOSE r \in Range(rs) :
                                                            r.post_id = p).metrics)
                                         ELSE @[p]]
                                 ELSE @,
                       !.aggFail = @ \/ ~ok,
                       !.wrote = @ \/ ok])
    /\ UNCHANGED <<generated_posts, post_feedback, product_performance, nextId,
                   now, config, runs, pubs, mediaSeq, lastFb, prodHist, race, ema, folds>>

\* ------------------------------------------------- runFeedbackCollectJob
\* lines 16-30: post_feedback rows of channel IG with collected_at null, in
\* some order (the query has no order clause), cut at `limit`
SelectPending(limit) ==
    {Take(o, limit) :
        o \in Orders({r \in post_feedback : r.channel = "IG" /\ r.collected_at = NoNum})}

CJ_Select(w) ==
    /\ Idle(w)
    /\ runs < MaxRuns /\ Events < MaxEvents
    /\ \E ok \in StoreOutcomes :
        /\ StoreCall(ok)
        /\ \E pending \in SelectPending(PendingLimit) :
           LET lg == [NoLog EXCEPT !.kind = "collect", !.outcome = "running",
                                   !.sel = IF ok THEN "ok" ELSE "error",
                                   !.batch = IF ok THEN pending ELSE <<>>]
           IN  /\ runs' = IF ok /\ Len(pending) > 0 THEN runs + 1 ELSE runs
               /\ IF ~ok THEN Finish(w, "raised", lg)
                  ELSE IF Len(pending) = 0 THEN ReturnEmpty(w, lg)
                  ELSE /\ run' = [run EXCEPT ![w] =
                              [IdleRun EXCEPT !.pc = "cj_fetch", !.kind = "collect",
                                              !.batch = pending, !.idx = 1]]
                       /\ log' = [log EXCEPT ![w] = lg]
    /\ UNCHANGED <<store, now, config, pubs, mediaSeq, lastFb, aggHist>>

\* mutant: `break` instead of going on with the next row
NextRow_Abort(w, lg) == Finish(w, "returned", lg)

\* `continue` or the end of the loop body: next row
NextRow(w, lg) ==
    IF run[w].idx = Len(run[w].batch)
    THEN Finish(w, "returned", lg)
    ELSE /\ run' = [run EXCEPT ![w] = [IdleRun EXCEPT !.pc = "cj_fetch",
                                          !.kind = "collect",
                                          !.batch = run[w].batch,
                                          !.idx = run[w].idx + 1]]
         /\ log' = [log EXCEPT ![w] = lg]

\* mutant: the exception of a row's step leaves the job
Caught_Rethrow(w, lg) == Finish(w, "raised", lg)

\* lines 93-98: the catch of the loop body logs, and the loop goes on
Caught(w, lg) == NextRow(w, lg)

Row(w) == run[w].batch[run[w].idx]

\* mutant: a failed provider call is replaced by the stub and the row is
\* processed with it
CJ_ProviderFailed_Stub(w) ==
    /\ run' = [run EXCEPT ![w].metrics = StubMetrics, ![w].stamp = now,
                          ![w].res = NoResponse, ![w].pc = "cj_update"]
    /\ log' = [log EXCEPT ![w].prov[Row(w).generated_post_id] = "fail"]

\* lines 108-112, 93-98: fetchMetricsForMedia throws, the catch of the loop body
\* logs, and the loop goes on with the next row
CJ_ProviderFailed(w) ==
    Caught(w, [log[w] EXCEPT !.prov[Row(w).generated_post_id] = "fail"])

\* lines 47, 102-105: the Graph API is called whatever the configuration and
\* answers with status 200 or an error status; the job goes on to read the body
CJ_Fetch(w) ==
    /\ run[w].pc = "cj_fetch"
    /\ \E ok \in ProviderOutcomes :
        /\ ProviderCall(ok)
        /\ run' = [run EXCEPT ![w].res = Response(ok, NoMedia), ![w].pc = "cj_body"]
    /\ UNCHANGED <<store, log, now, config, runs, pubs, mediaSeq, lastFb, aggHist>>

\* lines 106-116, 47-56: the body is read (res.json()); an error status is
\* thrown; with the json of a 200 the update of lines 50-56 is built
\* (collected_at: new Date())
CJ_ReadBody(w) ==
    /\ run[w].pc = "cj_body"
    /\ IF ResOk(run[w].res)
       THEN /\ run' = [run EXCEPT ![w].metrics = GraphJson(Row(w).ig_media_id.post),
                                  ![w].stamp = now,
                                  ![w].res = NoResponse,
                                  ![w].pc = "cj_update"]
            /\ log' = [log EXCEPT ![w].prov[Row(w).generated_post_id] = "ok"]
       ELSE CJ_ProviderFailed(w)
    /\ UNCHANGED <<store, now, config, faultsLeft, runs, pubs, mediaSeq, lastFb, aggHist>>

\* lines 50-64: metrics and collected_at of the row, as built before the call;
\* on error, continue
CJ_UpdateFeedback(w) ==
    /\ run[w].pc = "cj_update"
    /\ \E ok \in StoreOutcomes :
        /\ StoreCall(ok)
        /\ LET p == Row(w).generated_post_id IN
           IF ok
           THEN /\ post_feedback' =
                     UpdateFeedbackById(post_feedback, Row(w).id, run[w].metrics,
                                        run[w].stamp)
                /\ Written(p, run[w].metrics, run[w].stamp)
                /\ run' = [run EXCEPT ![w].pc = "cj_post", ![w].stamp = NoNum]
                /\ log' = [log EXCEPT ![w].fb[p] = "ok", ![w].fbm[p] = run[w].metrics,
                                      ![w].wrote = TRUE]
           ELSE /\ NextRow(w, [log[w] EXCEPT !.fb[p] = "fail"])
                /\ UNCHANGED <<post_feedback, lastFb>>
    /\ UNCHANGED <<generated_posts, product_performance, style_performance, nextId,
                   now, config, runs, pubs, mediaSeq, aggHist>>

\* lines 67-84: the post's product and style; on error, continue
CJ_LoadPost(w) ==
    /\ run[w].pc = "cj_post"
    /\ \E ok \in StoreOutcomes :
        /\ StoreCall(ok)
        /\ LET p == Row(w).generated_post_id
               m == run[w].metrics
           IN
           IF ok
           THEN /\ run' = [run EXCEPT
                     ![w].post = [id |-> p, product_id |-> ProductOf(p),
                                  style |-> StyleOf(p),
                                  channel_published |->
                                      generated_posts[p].channel_published],
                     ![w].perf = computePerfScore(NumOr0(m.like_count),
                                                  NumOr0(m.comments_count)),
                     ![w].pc = "cj_prod_read"]
                /\ log' = [log EXCEPT ![w].owner[p] = "ok"]
           ELSE NextRow(w, [log[w] EXCEPT !.owner[p] = "fail"])
    /\ UNCHANGED <<store, now, config, runs, pubs, mediaSeq, lastFb, aggHist>>

\* lines 123-127: the existing perf_score; a read error leaves `existing` null
CJ_ProdRead(w) ==
    /\ run[w].pc = "cj_prod_read"
    /\ \E ok \in StoreOutcomes :
        /\ StoreCall(ok)
        /\ run' = [run EXCEPT
               ![w].existing = IF ok THEN product_performance[run[w].post.product_id]
                               ELSE NoRow,
               ![w].readVer = prodHist[run[w].post.product_id].ver,
               ![w].pc = "cj_prod_write"]
    /\ UNCHANGED <<store, log, now, config, runs, pubs, mediaSeq, lastFb, aggHist>>

\* mutant: the merge starts from the row as it is when the upsert runs
ExistingScore_AtWrite(w) == product_performance[run[w].post.product_id]

\* lines 129-132: `existing` is what the read of lines 123-127 returned
ExistingScore(w) == run[w].existing

\* lines 129-150: the merged score is upserted; an error is only logged
CJ_ProdWrite(w) ==
    /\ run[w].pc = "cj_prod_write"
    /\ \E ok \in StoreOutcomes :
        /\ StoreCall(ok)
        /\ LET p == Row(w).generated_post_id
               newPerf == mergeProductScore(ExistingScore(w), run[w].perf)
           IN
           /\ product_performance' =
                IF ok THEN [product_performance EXCEPT ![run[w].post.product_id] = newPerf]
                ELSE product_performance
           /\ prodHist' =
                IF ok
                THEN [prodHist EXCEPT ![run[w].post.product_id] =
                        [ver |-> @.ver + 1, readVer |-> run[w].readVer,
                         perf |-> run[w].perf]]
                ELSE prodHist
           /\ folds' = IF ok THEN [folds EXCEPT ![p].product = @ + 1] ELSE folds
           /\ race' =
                LET h == prodHist[run[w].post.product_id] IN
                IF ok /\ h.ver = run[w].readVer + 1 /\ h.readVer = run[w].readVer
                THEN [pid |-> run[w].post.product_id, base |-> run[w].existing,
                      first |-> h.perf, second |-> run[w].perf, ver |-> h.ver + 1]
                ELSE race
           /\ log' = [log EXCEPT ![w].foldP[p] = IF ok THEN run[w].perf ELSE @,
                                 ![w].aggFail = @ \/ ~ok,
                                 ![w].wrote = @ \/ ok]
           /\ run' = [run EXCEPT ![w].pc = "cj_style_read", ![w].existing = NoRow,
                                 ![w].readVer = 0]
    /\ UNCHANGED <<generated_posts, post_feedback, style_performance, nextId,
                   now, config, runs, pubs, mediaSeq, lastFb, styleObs, ema>>

\* post.channel_published || row.channel
CJ_StyleKey(w) ==
    <<run[w].post.style,
      IF run[w].post.channel_published = Null \/ run[w].post.channel_published = ""
      THEN Row(w).channel ELSE run[w].post.channel_published>>

\* lines 160-165: the existing style row; a read error leaves `existing` null
CJ_StyleRead(w) ==
    /\ run[w].pc = "cj_style_read"
    /\ \E ok \in StoreOutcomes :
        /\ StoreCall(ok)
        /\ run' = [run EXCEPT
               ![w].existing = IF ok THEN style_performance[CJ_StyleKey(w)] ELSE NoRow,
               ![w].pc = "cj_style_write"]
    /\ UNCHANGED <<store, log, now, config, runs, pubs, mediaSeq, lastFb, aggHist>>

\* mutant: the impressions of the row are replaced by the observed ones, the
\* score is summed
mergeStyleAggregate_ImpressionsOverwrite(existing, impressions, perf) ==
    LET totalPerf ==
            perf + (IF existing = NoRow THEN 0 ELSE NumOr0(existing.perf_score))
    IN  [impressions |-> impressions, perf_score |-> totalPerf,
         engagement |-> Engagement(totalPerf, impressions)]

\* lines 167-188: totals and engagement of the row updateStylePerformance writes
mergeStyleAggregate(existing, impressions, perf) ==
    LET totalImpressions ==
            impressions + (IF existing = NoRow THEN 0 ELSE NumOr0(existing.impressions))
        totalPerf ==
            perf + (IF existing = NoRow THEN 0 ELSE NumOr0(existing.perf_score))
    IN  [impressions |-> totalImpressions, perf_score |-> totalPerf,
         engagement |-> Engagement(totalPerf, totalImpressions)]

\* lines 167-197: the summed row is upserted; an error is only logged; next row
CJ_StyleWrite(w) ==
    /\ run[w].pc = "cj_style_write"
    /\ \E ok \in StoreOutcomes :
        /\ StoreCall(ok)
        /\ LET p == Row(w).generated_post_id
               row == mergeStyleAggregate(run[w].existing,
                                          NumOr0(run[w].metrics.impressions), run[w].perf)
           IN
           /\ style_performance' =
                IF ok THEN [style_performance EXCEPT ![CJ_StyleKey(w)] = row]
                ELSE style_performance
           /\ styleObs' =
                IF ok
                THEN [styleObs EXCEPT ![CJ_StyleKey(w)] =
                        [impressions |-> @.impressions + NumOr0(run[w].metrics.impressions),
                         perf_score |-> @.perf_score + run[w].perf]]
                ELSE styleObs
           /\ folds' = IF ok THEN [folds EXCEPT ![p].style = @ + 1] ELSE folds
           /\ NextRow(w, [log[w] EXCEPT !.foldS[p] = IF ok THEN run[w].perf ELSE @,
                                        !.aggFail = @ \/ ~ok,
                                        !.wrote = @ \/ ok])
    /\ UNCHANGED <<generated_posts, post_feedback, product_performance, nextId,
                   now, config, runs, pubs, mediaSeq, lastFb, prodHist, race, ema>>

\* ------------------------------------------------ runPublishPostPipeline
Raise(w) == Finish(w, "raised", log[w])

\* publish jobs that have found their draft and not yet its product
LoadingProduct == {w \in Workers : run[w].pc = "pb_product"}

\* lines 12-46: load the post; only a DRAFT may be published
PB_LoadPost(w, p) ==
    /\ Idle(w)
    /\ pubs + Cardinality(LoadingProduct) < MaxPublish
    /\ Events + Cardinality(LoadingProduct) < MaxEvents
    /\ \E ok \in StoreOutcomes :
        /\ StoreCall(ok)
        /\ LET lg == [NoLog EXCEPT !.kind = "publish", !.outcome = "running"] IN
           IF ~ok \/ p \notin DOMAIN generated_posts
                  \/ generated_posts[p].status # "DRAFT"
           THEN Finish(w, "raised", lg)
           ELSE /\ run' = [run EXCEPT ![w] =
                       [IdleRun EXCEPT !.pc = "pb_product", !.kind = "publish",
                                       !.arg = p]]
                /\ log' = [log EXCEPT ![w] = lg]
    /\ UNCHANGED <<store, now, config, runs, pubs, mediaSeq, lastFb, aggHist>>

\* mutant: the dry run leaves igMediaId as declared, null
DryRunMediaId_Null(p) == NoMedia

\* lines 126-129: `dryrun_${generatedPostId}`
DryRunMediaId(p) == [tag |-> "dryrun", post |-> p, n |-> 0]

\* lines 42-88, 126-140: the product and its image; a product without a usable
\* image ends the job; the dry run simulates the media and builds the update,
\* a real run sends the POST that creates the media container
PB_LoadProduct(w) ==
    /\ run[w].pc = "pb_product"
    /\ \E ok \in StoreOutcomes, product \in ProductRows :
        /\ StoreCall(ok)
        /\ LET imageUrl == normalizeImageUrl(FirstImage(product)) IN
           IF ~ok \/ ~Truthy(imageUrl) THEN Raise(w) /\ UNCHANGED pubs
           ELSE /\ pubs' = pubs + 1
                /\ run' = [run EXCEPT
                     ![w].pc = IF dryRun THEN "pb_update" ELSE "pb_create",
                     ![w].igMediaId = IF dryRun THEN DryRunMediaId(run[w].arg)
                                      ELSE NoMedia,
                     ![w].stamp = IF dryRun THEN now ELSE NoNum]
                /\ UNCHANGED log
    /\ UNCHANGED <<store, now, config, runs, mediaSeq, lastFb, aggHist>>

\* lines 77-88: the platform answers the POST that creates the media container
PB_CreateMedia(w) ==
    /\ run[w].pc = "pb_create"
    /\ \E ok \in ProviderOutcomes :
        /\ ProviderCall(ok)
        /\ run' = [run EXCEPT ![w].res = Response(ok, NoMedia),
                              ![w].pc = "pb_create_body"]
    /\ UNCHANGED <<store, log, now, config, runs, pubs, mediaSeq, lastFb, aggHist>>

\* lines 90-113: the body is read (createRes.json()); an error status ends the
\* job; else the POST that publishes the container is sent
PB_ReadCreateBody(w) ==
    /\ run[w].pc = "pb_create_body"
    /\ IF ~ResOk(run[w].res) THEN Raise(w)
       ELSE /\ run' = [run EXCEPT ![w].res = NoResponse, ![w].pc = "pb_publish"]
            /\ UNCHANGED log
    /\ UNCHANGED <<store, now, config, faultsLeft, runs, pubs, mediaSeq, lastFb, aggHist>>

\* lines 103-113: the platform answers the POST media_publish: with status 200
\* it has published the media and names it
PB_PublishMedia(w) ==
    /\ run[w].pc = "pb_publish"
    /\ \E ok \in ProviderOutcomes :
        /\ ProviderCall(ok)
        /\ LET p == run[w].arg IN
           /\ mediaSeq' = IF ok THEN [mediaSeq EXCEPT ![p] = @ + 1] ELSE mediaSeq
           /\ run' = [run EXCEPT
                  ![w].res = Response(ok, IF ok
                                          THEN [tag |-> "ig", post |-> p,
                                                n |-> mediaSeq[p] + 1]
                                          ELSE NoMedia),
                  ![w].pc = "pb_publish_body"]
    /\ UNCHANGED <<store, log, now, config, runs, pubs, lastFb, aggHist>>

\* lines 115-140: the body is read (publishRes.json()); an error status ends
\* the job; else igMediaId is the id of the answer and the update is built
\* (published_at: new Date())
PB_ReadPublishBody(w) ==
    /\ run[w].pc = "pb_publish_body"
    /\ IF ~ResOk(run[w].res) THEN Raise(w)
       ELSE /\ run' = [run EXCEPT ![w].igMediaId = run[w].res.id,
                                  ![w].stamp = now,
                                  ![w].res = NoResponse,
                                  ![w].pc = "pb_update"]
            /\ UNCHANGED log
    /\ UNCHANGED <<store, now, config, faultsLeft, runs, pubs, mediaSeq, lastFb, aggHist>>

\* lines 132-146: the post becomes PUBLISHED; published_at is the clock as it
\* was when the update was built
PB_UpdatePost(w) ==
    /\ run[w].pc = "pb_update"
    /\ \E ok \in StoreOutcomes :
        /\ StoreCall(ok)
        /\ IF ~ok THEN Raise(w) /\ UNCHANGED generated_posts
           ELSE /\ generated_posts' = [generated_posts EXCEPT ![run[w].arg] =
                       [status |-> "PUBLISHED", meta_post_id |-> run[w].igMediaId,
                        channel_published |-> "IG",
                        published_at |-> run[w].stamp]]
                /\ run' = [run EXCEPT ![w].pc = "pb_seed", ![w].stamp = NoNum]
                /\ log' = [log EXCEPT ![w].wrote = TRUE]
    /\ UNCHANGED <<post_feedback, product_performance, style_performance, nextId,
                   now, config, runs, pubs, mediaSeq, lastFb, aggHist>>

SeedRecord(p, media) ==
    [id |-> 0, generated_post_id |-> p, channel |-> "IG", ig_media_id |-> media,
     metrics |-> EmptyMetrics, collected_at |-> NoNum]

\* lines 149-165: the seed row of post_feedback; an error is only logged.
\* Whether the table has a unique key on generated_post_id is the schema of the
\* store, which the source does not hold: a second row for a post is refused
\* or inserted.
PB_InsertSeed(w) ==
    /\ run[w].pc = "pb_seed"
    /\ \E ok \in StoreOutcomes, unique \in BOOLEAN :
        /\ StoreCall(ok)
        /\ LET rec == SeedRecord(run[w].arg, run[w].igMediaId)
               done == ok /\ InsertFeedbackAllowed(unique, post_feedback, rec)
           IN
           /\ post_feedback' = IF done THEN post_feedback \cup {[rec EXCEPT !.id = nextId]}
                               ELSE post_feedback
           /\ nextId' = IF done THEN nextId + 1 ELSE nextId
           /\ IF done THEN Written(run[w].arg, EmptyMetrics, NoNum)
              ELSE UNCHANGED lastFb
           /\ Finish(w, "returned",
                     [log[w] EXCEPT !.fb[run[w].arg] = IF done THEN "ok" ELSE "fail",
                                    !.fbm[run[w].arg] = IF done THEN EmptyMetrics ELSE @])
    /\ UNCHANGED <<generated_posts, product_performance, style_performance,
                   now, config, runs, pubs, mediaSeq, aggHist>>

\* ------------------------------------------------------------- the clock
Tick ==
    /\ now + DayStep <= MaxClock
    /\ now' = now + DayStep
    /\ UNCHANGED <<store, config, faultsLeft, run, log, runs, pubs, mediaSeq, lastFb, aggHist>>

\* ------------------------------------------------------- specifications
CollectKinds == {"loop1", "loop2", "collect"}
Solo == {"w1"}       \* one job at a time

Next ==
    \/ Tick
    \/ \E w \in Solo :
        \/ \E version \in {"loop1", "loop2"}, payloadLimit \in PayloadLimits :
              FL_Start(w, version, payloadLimit)
        \/ FL_Select(w)
        \/ FL_Fetch(w)
        \/ FL_ReadBody(w)
        \/ FL_Pause(w)
        \/ FL_UpsertFeedback(w)
        \/ FL_UpsertProducts(w)
        \/ FL_UpsertStyles(w)
        \/ CJ_Select(w)
        \/ CJ_Fetch(w)
        \/ CJ_ReadBody(w)
        \/ CJ_UpdateFeedback(w)
        \/ CJ_LoadPost(w)
        \/ CJ_ProdRead(w)
        \/ CJ_ProdWrite(w)
        \/ CJ_StyleRead(w)
        \/ CJ_StyleWrite(w)
        \/ \E p \in Posts : PB_LoadPost(w, p)
        \/ PB_LoadProduct(w)
        \/ PB_CreateMedia(w)
        \/ PB_ReadCreateBody(w)
        \/ PB_PublishMedia(w)
        \/ PB_ReadPublishBody(w)
        \/ PB_UpdatePost(w)
        \/ PB_InsertSeed(w)
        \/ Settle(w)

Spec == Init /\ [][Next]_vars

\* Two processes run runFeedbackCollectJob at the same time over posts that
\* were published, with their seed rows pending; no call fails.
SeedId(p) == CASE p = "p1" -> 1 [] p = "p2" -> 2 [] OTHER -> 3

PublishedPost(p) ==
    [status |-> "PUBLISHED", meta_post_id |-> [tag |-> "ig", post |-> p, n |-> 1],
     channel_published |-> "IG", published_at |-> 0]

InitConc ==
    /\ generated_posts = [p \in DraftedPosts |-> PublishedPost(p)]
    /\ post_feedback =
          {[SeedRecord(p, PublishedPost(p).meta_post_id) EXCEPT !.id = SeedId(p)]
              : p \in DraftedPosts}
    /\ product_performance = [pid \in Products |-> NoRow]
    /\ style_performance = [k \in StyleKeys |-> NoRow]
    /\ nextId = Cardinality(DraftedPosts) + 1
    /\ now = 0
    /\ metaEnabled = TRUE
    /\ dryRun = FALSE
    /\ faultsLeft = 0
    /\ run = [w \in Workers |-> IdleRun]
    /\ log = [w \in Workers |-> NoLog]
    /\ runs = 0
    /\ pubs = 0
    /\ mediaSeq = [p \in Posts |-> IF p \in DraftedPosts THEN 1 ELSE 0]
    /\ lastFb = [p \in Posts |->
                   IF p \in DraftedPosts
                   THEN [metrics |-> EmptyMetrics, at |-> NoNum, n |-> 1]
                   ELSE NoRow]
    /\ prodHist = [pid \in Products |-> NoWrites]
    /\ race = NoRow
    /\ styleObs = [k \in StyleKeys |-> NoObs]
    /\ ema = NoRow
    /\ folds = [p \in Posts |-> NoFolds]

NextConc ==
    \E w \in Workers :
        \/ CJ_Select(w)
        \/ CJ_Fetch(w)
        \/ CJ_ReadBody(w)
        \/ CJ_UpdateFeedback(w)
        \/ CJ_LoadPost(w)
        \/ CJ_ProdRead(w)
        \/ CJ_ProdWrite(w)
        \/ CJ_StyleRead(w)
        \/ CJ_StyleWrite(w)
        \/ Settle(w)

SpecConc == InitConc /\ [][NextConc]_vars

\* updateProductPerformance called over and over for one product with the same
\* observation, by callers that may overlap, from every score the table may
\* hold for it: none, a whole number, or a double next to one. The read and the
\* upsert of a call are its two steps; either may fail.
EmaProduct == ProductOf("p1")
EmaPost == "p1"

\* a - 1 for a natural number a > 0
RECURSIVE BDecDigits(_)
BDecDigits(a) ==
    IF Head(a) > 0 THEN <<Head(a) - 1>> \o Tail(a)
    ELSE <<LimbBase - 1>> \o BDecDigits(Tail(a))
BDec(a) == BTrim(BDecDigits(a))

\* the doubles next above and next below a positive double
NextUp(d) ==
    LET s == Precision - BitLen(d.m)
    IN  Canon(BAdd(Shl(d.m, s), <<1>>), d.e - s)
NextDown(d) ==
    LET s == Precision - BitLen(d.m)
    IN  IF d.m = <<1>> THEN Canon(BDec(Shl(d.m, s + 1)), d.e - s - 1)
        ELSE Canon(BDec(Shl(d.m, s)), d.e - s)

EmaStarts ==
    {NoRow} \cup {DoubleOf(n) : n \in 0..MaxScore}
            \cup {NextDown(DoubleOf(n)) : n \in 1..MaxScore}
            \cup {NextUp(DoubleOf(n)) : n \in 1..MaxScore}

InitEma ==
    /\ generated_posts = [p \in DraftedPosts |-> PublishedPost(p)]
    /\ post_feedback = {}
    /\ \E s \in EmaStarts :
          product_performance = [pid \in Products |-> IF pid = EmaProduct THEN s ELSE NoRow]
    /\ style_performance = [k \in StyleKeys |-> NoRow]
    /\ nextId = 1
    /\ now = 0
    /\ metaEnabled = TRUE
    /\ dryRun = FALSE
    /\ faultsLeft = MaxFaults
    /\ run = [w \in Workers |-> IdleRun]
    /\ log = [w \in Workers |-> NoLog]
    /\ runs = 0
    /\ pubs = 0
    /\ mediaSeq = [p \in Posts |-> 0]
    /\ lastFb = [p \in Posts |-> NoRow]
    /\ prodHist = [pid \in Products |-> NoWrites]
    /\ race = NoRow
    /\ styleObs = [k \in StyleKeys |-> NoObs]
    /\ \E x \in 0..MaxScore :
          ema = [start |-> product_performance[EmaProduct], x |-> x, n |-> 0]
    /\ folds = [p \in Posts |-> NoFolds]

\* line 86: updateProductPerformance(post.product_id, perf) is called for a row
\* of the product, with the observation as perf
EmaCall(w) ==
    /\ ema # NoRow
    /\ ema.n < MaxApply
    /\ Idle(w)
    /\ run' = [run EXCEPT ![w] =
                 [IdleRun EXCEPT
                    !.pc = "cj_prod_read",
                    !.kind = "collect",
                    !.batch = <<[SeedRecord(EmaPost, PublishedPost(EmaPost).meta_post_id)
                                    EXCEPT !.id = SeedId(EmaPost)]>>,
                    !.idx = 1,
                    !.post = [id |-> EmaPost, product_id |-> EmaProduct,
                              style |-> StyleOf(EmaPost),
                              channel_published |-> "IG"],
                    !.perf = ema.x]]
    /\ ema' = [ema EXCEPT !.n = @ + 1]
    /\ UNCHANGED <<store, log, now, config, faultsLeft, runs, pubs, mediaSeq,
                   lastFb, prodHist, race, styleObs, folds>>

\* line 86: updateProductPerformance has returned to its caller
EmaReturn(w) ==
    /\ ema # NoRow
    /\ run[w].pc = "cj_style_read"
    /\ run' = [run EXCEPT ![w] = IdleRun]
    /\ log' = [log EXCEPT ![w] = NoLog]
    /\ UNCHANGED <<store, now, config, faultsLeft, runs, pubs, mediaSeq, lastFb, aggHist>>

NextEma ==
    \E w \in Workers :
        \/ EmaCall(w)
        \/ CJ_ProdRead(w)
        \/ CJ_ProdWrite(w)
        \/ EmaReturn(w)

SpecEma == InitEma /\ [][NextEma]_vars

\* runFeedbackLoopPipeline, one run at a time, over three published posts that
\* share products and styles; a provider call may fail, the credential may be
\* missing.
InitAcc ==
    /\ generated_posts = [p \in Posts |-> PublishedPost(p)]
    /\ post_feedback =
          {[SeedRecord(p, PublishedPost(p).meta_post_id) EXCEPT !.id = SeedId(p)]
              : p \in Posts}
    /\ product_performance = [pid \in Products |-> NoRow]
    /\ style_performance = [k \in StyleKeys |-> NoRow]
    /\ nextId = Cardinality(Posts) + 1
    /\ now = 0
    /\ metaEnabled \in BOOLEAN
    /\ dryRun = FALSE
    /\ faultsLeft = MaxFaults
    /\ run = [w \in Workers |-> IdleRun]
    /\ log = [w \in Workers |-> NoLog]
    /\ runs = 0
    /\ pubs = 0
    /\ mediaSeq = [p \in Posts |-> 1]
    /\ lastFb = [p \in Posts |-> [metrics |-> EmptyMetrics, at |-> NoNum, n |-> 1]]
    /\ prodHist = [pid \in Products |-> NoWrites]
    /\ race = NoRow
    /\ styleObs = [k \in StyleKeys |-> NoObs]
    /\ ema = NoRow
    /\ folds = [p \in Posts |-> NoFolds]

NextAcc ==
    \E w \in Solo :
        \/ \E version \in {"loop1", "loop2"}, payloadLimit \in PayloadLimits :
              FL_Start(w, version, payloadLimit)
        \/ FL_Select(w)
        \/ FL_Fetch(w)
        \/ FL_ReadBody(w)
        \/ FL_Pause(w)
        \/ FL_UpsertFeedback(w)
        \/ FL_UpsertProducts(w)
        \/ FL_UpsertStyles(w)
        \/ Settle(w)

SpecAcc == InitAcc /\ [][NextAcc]_vars

\* runFeedbackLoopPipeline and runFeedbackCollectJob, one job at a time, over
\* the same three published posts, two of them of one style; any call may
\* fail, the credential may be missing.
NextStyle ==
    \E w \in Solo :
        \/ \E version \in {"loop1", "loop2"}, payloadLimit \in PayloadLimits :
              FL_Start(w, version, payloadLimit)
        \/ FL_Select(w)
        \/ FL_Fetch(w)
        \/ FL_ReadBody(w)
        \/ FL_Pause(w)
        \/ FL_UpsertFeedback(w)
        \/ FL_UpsertProducts(w)
        \/ FL_UpsertStyles(w)
        \/ CJ_Select(w)
        \/ CJ_Fetch(w)
        \/ CJ_ReadBody(w)
        \/ CJ_UpdateFeedback(w)
        \/ CJ_LoadPost(w)
        \/ CJ_ProdRead(w)
        \/ CJ_ProdWrite(w)
        \/ CJ_StyleRead(w)
        \/ CJ_StyleWrite(w)
        \/ Settle(w)

SpecStyle == InitAcc /\ [][NextStyle]_vars

\* The score of one post's metrics, computed the way each variant does, for
\* every like and comment count up to MaxCount (or missing) and several
\* impressions values.
Counts == {NoNum} \cup (0..MaxCount)
Scorer == "w1"

InitScore ==
    /\ generated_posts = [p \in DraftedPosts |-> DraftPost]
    /\ post_feedback = {}
    /\ product_performance = [pid \in Products |-> NoRow]
    /\ style_performance = [k \in StyleKeys |-> NoRow]
    /\ nextId = 1
    /\ now = 0
    /\ metaEnabled = TRUE
    /\ dryRun = FALSE
    /\ faultsLeft = 0
    /\ \E l \in Counts, c \in Counts, i \in {NoNum, 0, 7} :
          run = [w \in Workers |->
                   IF w = Scorer
                   THEN [IdleRun EXCEPT !.pc = "score",
                                        !.metrics = [like_count |-> l,
                                                     comments_count |-> c,
                                                     impressions |-> i]]
                   ELSE IdleRun]
    /\ log = [w \in Workers |-> NoLog]
    /\ runs = 0
    /\ pubs = 0
    /\ mediaSeq = [p \in Posts |-> 0]
    /\ lastFb = [p \in Posts |-> NoRow]
    /\ prodHist = [pid \in Products |-> NoWrites]
    /\ race = NoRow
    /\ styleObs = [k \in StyleKeys |-> NoObs]
    /\ ema = NoRow
    /\ folds = [p \in Posts |-> NoFolds]

\* feedbackCollect.ts lines 81-84
ScoreCollect ==
    /\ run[Scorer].pc = "score"
    /\ run' = [run EXCEPT
           ![Scorer].perf = computePerfScore(NumOr0(run[Scorer].metrics.like_count),
                                             NumOr0(run[Scorer].metrics.comments_count)),
           ![Scorer].pc = "scored_collect"]
    /\ UNCHANGED <<store, now, config, faultsLeft, log, runs, pubs, mediaSeq, lastFb,
                   aggHist>>

\* feedbackLoop.pipeline.ts lines 206-209 / 447-450
ScoreLoop ==
    /\ run[Scorer].pc = "score"
    /\ run' = [run EXCEPT ![Scorer].perf = ResultPerf(run[Scorer].metrics),
                          ![Scorer].pc = "scored_loop"]
    /\ UNCHANGED <<store, now, config, faultsLeft, log, runs, pubs, mediaSeq, lastFb,
                   aggHist>>

NextScore == ScoreCollect \/ ScoreLoop

SpecScore == InitScore /\ [][NextScore]_vars

\* ------------------------------------------------------------- the claims
Done(w) == run[w].pc = "done"
CollectRun(w) == log[w].kind \in CollectKinds
FeedbackOf(p) == {r \in post_feedback : r.generated_post_id = p}

\* the posts of the batch the run of w selected
BatchPosts(w) ==
    {IF log[w].kind = "collect" THEN log[w].batch[i].generated_post_id
     ELSE log[w].batch[i].id : i \in 1..Len(log[w].batch)}

\* position of post p in the batch of w (0: not in it)
BatchPos(w, p) ==
    IF p \in BatchPosts(w)
    THEN CHOOSE i \in 1..Len(log[w].batch) :
            p = (IF log[w].kind = "collect" THEN log[w].batch[i].generated_post_id
                 ELSE log[w].batch[i].id)
    ELSE 0

\* the metrics a successful provider call yields for post p in a run of `kind`
RealMetrics(kind, p) ==
    IF kind = "collect" THEN GraphJson(p) ELSE IgMetrics(GraphJson(p))

\* C1 (failure isolation): when a collection run of any variant has ended, the
\* provider was consulted (or the stub taken) for every post of its batch, and
\* every post whose own provider call succeeded, and whose feedback write the
\* store did not refuse, has its feedback record written with its real metrics,
\* whatever happened to the posts before it.
C1_FailureIsolation ==
    \A w \in Workers :
        (Done(w) /\ CollectRun(w) /\ log[w].sel = "ok") =>
            \A p \in BatchPosts(w) :
                /\ log[w].prov[p] # "none"
                /\ (log[w].prov[p] = "ok" /\ log[w].fb[p] # "fail") =>
                      /\ log[w].fb[p] = "ok"
                      /\ log[w].fbm[p] = RealMetrics(log[w].kind, p)
                      /\ \E r \in FeedbackOf(p) :
                            /\ r.metrics = RealMetrics(log[w].kind, p)
                            /\ r.collected_at # NoNum

\* a run of runFeedbackCollectJob over two posts: the provider failed for the
\* first, succeeded for the second, whose record was written
C1_Witness ==
    \E w \in Workers :
        /\ Done(w) /\ log[w].kind = "collect"
        /\ BatchPos(w, "p1") = 1 /\ BatchPos(w, "p2") = 2
        /\ log[w].prov["p1"] = "fail"
        /\ log[w].prov["p2"] = "ok" /\ log[w].fb["p2"] = "ok"
        /\ \E r \in FeedbackOf("p2") : r.metrics = GraphJson("p2")

\* C2 (aggregates follow durable feedback only): a post's score is folded into
\* a product or style aggregate only if the write of its feedback record
\* succeeded in that run.
C2_AggregatesFollowFeedback ==
    \A w \in Workers : CollectRun(w) =>
        \A p \in Posts :
            (log[w].foldP[p] # NoNum \/ log[w].foldS[p] # NoNum) => log[w].fb[p] = "ok"

\* C3 as claimed (degraded fallback in every variant): with a credential
\* configured, a post whose provider call failed has the stub metrics written
\* as its feedback record and score 1 folded into its aggregates.
C3_FallbackEverywhere ==
    \A w \in Workers :
        (Done(w) /\ CollectRun(w) /\ metaEnabled) =>
            \A p \in BatchPosts(w) :
                (log[w].prov[p] = "fail" /\ log[w].fb[p] # "fail") =>
                    /\ log[w].fb[p] = "ok"
                    /\ log[w].fbm[p] =
                         [like_count |-> 1, comments_count |-> 0, impressions |-> NoNum]

\* C3 amended: the first version of runFeedbackLoopPipeline substitutes the
\* stub {like_count: 1, comments_count: 0}: the post gets a feedback record with
\* the stub (unless the store refuses the write) and score 1 in each aggregate
\* upsert that succeeds. The second version and runFeedbackCollectJob skip the
\* post: no feedback write, nothing folded.
C3_FallbackFirstVersionOnly ==
    \A w \in Workers :
        (Done(w) /\ CollectRun(w) /\ metaEnabled) =>
            \A p \in BatchPosts(w) :
                log[w].prov[p] = "fail" =>
                    IF log[w].kind = "loop1"
                    THEN /\ log[w].fb[p] \in {"ok", "fail"}
                         /\ log[w].fb[p] = "ok" =>
                              /\ log[w].fbm[p] = [like_count |-> 1, comments_count |-> 0,
                                                  impressions |-> NoNum]
                              /\ \E r \in FeedbackOf(p) :
                                    /\ r.metrics.like_count = 1
                                    /\ r.metrics.comments_count = 0
                         /\ log[w].foldP[p] \in {NoNum, 1}
                         /\ log[w].foldS[p] \in {NoNum, 1}
                         /\ ~log[w].aggFail =>
                              (log[w].foldP[p] = 1 /\ log[w].foldS[p] = 1)
                    ELSE /\ log[w].fb[p] = "none"
                         /\ log[w].foldP[p] = NoNum
                         /\ log[w].foldS[p] = NoNum

\* the first version ended: provider failed for p1, stub written and folded
C3_Witness ==
    \E w \in Workers :
        /\ Done(w) /\ log[w].kind = "loop1" /\ metaEnabled
        /\ log[w].prov["p1"] = "fail" /\ log[w].fb["p1"] = "ok"
        /\ log[w].foldP["p1"] = 1 /\ log[w].foldS["p1"] = 1
        /\ \E r \in FeedbackOf("p1") : r.metrics.like_count = 1

\* C4 (disabled provider): without a credential no run calls the provider and
\* every post of the batch gets the stub metrics.
C4_NoProviderCallWithoutCredential ==
    \A w \in Workers : (CollectRun(w) /\ ~metaEnabled) =>
        /\ \A p \in Posts : log[w].prov[p] \in {"none", "stub"}
        /\ Done(w) => \A p \in BatchPosts(w) : log[w].prov[p] = "stub"

\* C5 (only the initial read is fatal): a collection run raises to its caller
\* exactly when its initial read failed, and then it has written nothing;
\* provider, feedback-write, owner-lookup and aggregate-upsert failures never
\* make it raise.
C5_OnlySelectionRaises ==
    \A w \in Workers : (Done(w) /\ CollectRun(w)) =>
        /\ log[w].outcome = "raised" <=> log[w].sel = "error"
        /\ log[w].outcome \in {"raised", "returned"}
        /\ log[w].outcome = "raised" => ~log[w].wrote

\* a run of two posts returned although an aggregate upsert of its first post
\* failed, and it went on to fold the second
C5_Witness ==
    \E w \in Workers :
        /\ Done(w) /\ log[w].kind = "collect" /\ log[w].outcome = "returned"
        /\ BatchPos(w, "p1") = 1 /\ BatchPos(w, "p2") = 2
        /\ log[w].aggFail /\ log[w].foldP["p1"] = NoNum
        /\ log[w].foldS["p2"] # NoNum

\* C6 (merge against the existing row): the product upsert of
\* runFeedbackLoopPipeline writes, for each product of the run, the EMA merge of
\* the pre-existing score with the run's total, and the style upsert writes the
\* pre-existing perf_score plus the run's total.
C6_MergeAgainstExisting ==
    [][\A w \in Workers :
         /\ (run[w].pc = "fl_products" /\ run'[w].pc = "fl_styles"
                /\ product_performance' # product_performance) =>
               \A pid \in DOMAIN ProdMap(run[w].results) :
                   product_performance'[pid] =
                       mergeProductScore(product_performance[pid],
                                         ProdMap(run[w].results)[pid])
         /\ (run[w].pc = "fl_styles" /\ run'[w].pc = "done"
                /\ style_performance' # style_performance) =>
               \A key \in DOMAIN StyleMap(run[w].results) :
                   LET k == SplitKey(key) IN
                   style_performance'[k].perf_score =
                       StyleMap(run[w].results)[key]
                         + (IF style_performance[k] = NoRow THEN 0
                            ELSE NumOr0(style_performance[k].perf_score))
      ]_vars

\* no job is under way
Quiet == \A w \in Workers : run[w].pc \in {"idle", "done"}

\* the totals of a style row (no row: zero)
StyleTotals(k) ==
    IF style_performance[k] = NoRow THEN NoObs
    ELSE [impressions |-> NumOr0(style_performance[k].impressions),
          perf_score |-> NumOr0(style_performance[k].perf_score)]

\* C7 (concurrent runs are safe for additive aggregates): when the concurrent
\* runs have ended, the impressions and perf_score totals of every style+channel
\* row are the initial value (zero) plus the sum of all observations the runs
\* upserted for it.
C7_ConcurrentStyleTotalsAdditive ==
    Quiet => \A k \in StyleKeys : StyleTotals(k) = styleObs[k]

\* the last two writes of race.pid were a read, read, write, write
RaceStands == race # NoRow /\ prodHist[race.pid].ver = race.ver

\* C8 (concurrent EMA merges race): after two updateProductPerformance calls
\* for one product interleaved as read, read, write, write, the stored
\* perf_score is the merge of the value both read with the second writer's
\* observation alone: the first writer's observation is lost.
C8_RaceLosesFirstUpdate ==
    RaceStands =>
        product_performance[race.pid] = mergeProductScore(race.base, race.second)

\* a read, read, write, write happened, and the stored score is the result of
\* neither serial order of the two merges
C8_Witness ==
    /\ RaceStands
    /\ LET s == product_performance[race.pid]
           afterFirst == mergeProductScore(race.base, race.first)
           afterSecond == mergeProductScore(race.base, race.second)
       IN  /\ s = afterSecond
           /\ s # mergeProductScore(afterFirst, race.second)
           /\ s # mergeProductScore(afterSecond, race.first)

\* C9 (one feedback record per post): the store holds at most one
\* post_feedback row per post, and that row carries the metrics and collected_at
\* of the latest successful write.
C9_OneFeedbackRecordPerPost ==
    \A p \in Posts :
        /\ Cardinality(FeedbackOf(p)) <= 1
        /\ lastFb[p] # NoRow =>
              \E r \in FeedbackOf(p) :
                  r.metrics = lastFb[p].metrics /\ r.collected_at = lastFb[p].at

\* the record of p1 was written three times (seed, two collections) and is one
C9_Witness ==
    /\ lastFb["p1"] # NoRow /\ lastFb["p1"].n = 3
    /\ Cardinality(FeedbackOf("p1")) = 1
    /\ \E r \in FeedbackOf("p1") : r.collected_at = MaxClock

\* C10 (owner-lookup failure in runFeedbackCollectJob): the post whose lookup
\* failed is folded into no aggregate, its feedback record stays as written
\* (metrics and collected_at set), and the run goes on to the next post.
C10_OwnerLookupFailure ==
    \A w \in Workers : log[w].kind = "collect" =>
        \A p \in Posts : log[w].owner[p] = "fail" =>
            /\ log[w].foldP[p] = NoNum /\ log[w].foldS[p] = NoNum
            /\ log[w].fb[p] = "ok"
            /\ \E r \in FeedbackOf(p) :
                  r.metrics = log[w].fbm[p] /\ r.metrics = GraphJson(p)
                     /\ r.collected_at # NoNum
            /\ Done(w) => /\ log[w].outcome = "returned"
                          /\ \A q \in BatchPosts(w) : log[w].prov[q] # "none"

\* the lookup failed for the first post of the batch; the second was folded
C10_Witness ==
    \E w \in Workers :
        /\ Done(w) /\ log[w].kind = "collect"
        /\ BatchPos(w, "p1") = 1 /\ BatchPos(w, "p2") = 2
        /\ log[w].owner["p1"] = "fail"
        /\ log[w].foldP["p2"] # NoNum /\ log[w].foldS["p2"] # NoNum

\* engagement of a style row; a column never written is 0
EngagementOf(row) ==
    IF row.engagement = NoRow THEN Engagement(0, 0) ELSE row.engagement

\* C11 (derived engagement invariant): in every reachable state each
\* style_performance row has engagement = perf_score / impressions when
\* impressions > 0 and engagement = 0 otherwise.
C11_EngagementDerived ==
    \A k \in StyleKeys :
        style_performance[k] # NoRow =>
            EngagementOf(style_performance[k]) =
                Engagement(NumOr0(style_performance[k].perf_score),
                           NumOr0(style_performance[k].impressions))

\* C12 (additive style merge): every successful write of updateStylePerformance
\* stores impressions = previous impressions + observed impressions and
\* perf_score = previous perf_score + observed score, the previous row being the
\* one the call read (0 when none), and engagement = perf_score / impressions
\* when impressions > 0, else 0.
C12_AdditiveStyleMerge ==
    [][\A w \in Workers :
         (run[w].pc = "cj_style_write" /\ run'[w].pc # "cj_style_write"
             /\ faultsLeft' = faultsLeft) =>
            LET prev == run[w].existing
                prevImpressions == IF prev = NoRow THEN 0 ELSE NumOr0(prev.impressions)
                prevPerf == IF prev = NoRow THEN 0 ELSE NumOr0(prev.perf_score)
                new == style_performance'[CJ_StyleKey(w)]
            IN  /\ new.impressions = prevImpressions + NumOr0(run[w].metrics.impressions)
                /\ new.perf_score = prevPerf + run[w].perf
                /\ new.impressions > 0 =>
                      /\ new.engagement.d > 0
                      /\ new.engagement.n * new.impressions
                            = new.perf_score * new.engagement.d
                /\ new.impressions = 0 => new.engagement = [n |-> 0, d |-> 1]
      ]_vars

\* after a run of runFeedbackLoopPipeline had left a row of boho|IG with a score
\* and no impressions, one run of runFeedbackCollectJob folded p1 (10
\* impressions) and p3 (4 impressions) into that row, the second over the
\* impressions the first had written, and p2, which has no impressions, into a
\* new row
C12_Witness ==
    \E w \in Workers :
        /\ Done(w) /\ log[w].kind = "collect"
        /\ log[w].foldS["p1"] = 5 /\ log[w].foldS["p2"] = 4 /\ log[w].foldS["p3"] = 2
        /\ style_performance[<<"boho", "IG">>] # NoRow
        /\ style_performance[<<"boho", "IG">>].impressions = 14
        /\ style_performance[<<"boho", "IG">>].perf_score > 7
        /\ style_performance[<<"", "IG">>] # NoRow
        /\ style_performance[<<"", "IG">>].impressions = 0
        /\ style_performance[<<"", "IG">>].perf_score = 4
        /\ style_performance[<<"", "IG">>].engagement = [n |-> 0, d |-> 1]

\* a <= b for natural numbers as digit sequences
RECURSIVE BLeq(_, _)
BLeq(a, b) ==
    IF Len(a) # Len(b) THEN Len(a) < Len(b)
    ELSE IF a = <<>> THEN TRUE
    ELSE IF a[Len(a)] # b[Len(b)] THEN a[Len(a)] < b[Len(b)]
    ELSE BLeq(SubSeq(a, 1, Len(a) - 1), SubSeq(b, 1, Len(b) - 1))

\* a < b for natural numbers as digit sequences
BLess(a, b) == BLeq(a, b) /\ a # b

\* a <= b for two scores
DLeq(a, b) ==
    LET e == Min(a.e, b.e) IN BLeq(Shl(a.m, a.e - e), Shl(b.m, b.e - e))

\* a score as a natural number of units 2^e
Units(d, e) == Shl(d.m, d.e - e)
UnitOf(p, x, new) == Min(Min(p.e, x.e), new.e)

\* |10 new - (7 p + 3 x)| <= (7 p + 3 x) * 2^-51: new is 0.7 p + 0.3 x up to the
\* rounding of the two literals, of the two products and of the sum
NearEma(p, x, new) ==
    LET e == UnitOf(p, x, new)
        k == Precision - 2
        exact == BAdd(BMulLimb(Units(p, e), 7, 0), BMulLimb(Units(x, e), 3, 0))
        got == BMulLimb(Units(new, e), 10, 0)
    IN  /\ BLeq(Shl(got, k), BAdd(Shl(exact, k), exact))
        /\ BLeq(Shl(exact, k), BAdd(Shl(got, k), exact))

\* new is between p and x, both included
Between(p, x, new) ==
    /\ DLeq(p, x) => (DLeq(p, new) /\ DLeq(new, x))
    /\ DLeq(x, p) => (DLeq(x, new) /\ DLeq(new, p))

\* |p - x| >= max(p, x) * 2^-49 and p # x: p is more than a few rounding steps
\* away from x
FarApart(p, x) ==
    LET e == Min(p.e, x.e)
        k == Precision - 4
        P == Units(p, e)
        X == Units(x, e)
    IN  /\ P # X
        /\ IF BLeq(P, X) THEN BLeq(BAdd(Shl(P, k), X), Shl(X, k))
           ELSE BLeq(BAdd(Shl(X, k), P), Shl(P, k))

\* |new - x| < |p - x|, new on the side of x where p is
StrictlyNearer(p, x, new) ==
    LET e == UnitOf(p, x, new)
        P == Units(p, e)
        X == Units(x, e)
        N == Units(new, e)
    IN  IF BLeq(P, X) THEN BLess(P, N) /\ BLeq(N, X)
        ELSE BLess(N, P) /\ BLeq(X, N)

\* |new - x| <= |p - x| + max(p, x) * 2^-51
HardlyFarther(p, x, new) ==
    LET e == UnitOf(p, x, new)
        k == Precision - 2
        P == Units(p, e)
        X == Units(x, e)
        N == Units(new, e)
    IN  IF BLeq(P, X)
        THEN /\ BLeq(Shl(P, k), BAdd(Shl(N, k), X))
             /\ BLeq(Shl(BAdd(N, P), k), BAdd(Shl(BAdd(X, X), k), X))
        ELSE /\ BLeq(Shl(N, k), BAdd(Shl(P, k), P))
             /\ BLeq(Shl(BAdd(X, X), k), BAdd(Shl(BAdd(N, P), k), P))

\* the upsert of updateProductPerformance succeeds / fails in this step
EmaUpserted(w) ==
    /\ run[w].pc = "cj_prod_write" /\ run'[w].pc # "cj_prod_write"
    /\ faultsLeft' = faultsLeft
EmaUpsertFailed(w) ==
    /\ run[w].pc = "cj_prod_write" /\ run'[w].pc # "cj_prod_write"
    /\ faultsLeft' # faultsLeft

\* C13 as claimed (EMA product merge): updateProductPerformance stores the
\* observation x itself when the product had no score, and 0.7 * p + 0.3 * x
\* (up to rounding) when its read returned the score p (p = 0 included); the
\* stored score is then between p and x: it has moved toward x, or stayed on x,
\* and never moved away from it.
C13_EmaMerge ==
    [][\A w \in Workers :
         EmaUpserted(w) =>
            LET p == run[w].existing
                x == DoubleOf(run[w].perf)
                new == product_performance'[run[w].post.product_id]
            IN  /\ new # NoRow
                /\ IF p = NoRow THEN new = x
                   ELSE NearEma(p, x, new) /\ Between(p, x, new)
      ]_vars

\* C13 amended: an upsert of updateProductPerformance that succeeds stores x
\* itself when the read of the call returned no score (no row, or the read
\* failed), and otherwise a double within 2^-51 (relative) of 0.7 * p + 0.3 * x,
\* p being the score the read returned (p = 0 included). When p is farther from
\* x than max(p, x) * 2^-49 the stored score is strictly between p and x or on
\* x; in every case it is no farther from x than p was by more than
\* max(p, x) * 2^-51. An upsert that fails leaves the stored score as it was.
C13_EmaMergeRounded ==
    [][\A w \in Workers :
         /\ EmaUpserted(w) =>
               LET p == run[w].existing
                   x == DoubleOf(run[w].perf)
                   new == product_performance'[run[w].post.product_id]
               IN  /\ new # NoRow
                   /\ IF p = NoRow THEN new = x
                      ELSE /\ NearEma(p, x, new)
                           /\ FarApart(p, x) => StrictlyNearer(p, x, new)
                           /\ HardlyFarther(p, x, new)
         /\ EmaUpsertFailed(w) => product_performance' = product_performance
      ]_vars

\* from the score 1.9999999999999998, the double next below 2, three calls in a
\* row merged the observation 2 and no call failed: the stored score is
\* 1.9999999999999996, one rounding step farther from 2 than the start
C13_Witness ==
    /\ ema # NoRow /\ ema.x = 2 /\ ema.n = MaxApply
    /\ ema.start = NextDown(DoubleOf(2))
    /\ faultsLeft = MaxFaults
    /\ \A w \in Workers : Idle(w)
    /\ prodHist[EmaProduct].ver = MaxApply
    /\ product_performance[EmaProduct] = NextDown(NextDown(DoubleOf(2)))

\* C14 (empty batch): a collection run whose selection succeeds and returns no
\* row ends there: it returns normally, calls the provider for no post, and
\* leaves post_feedback, product_performance, style_performance and the rest of
\* the store as they were.
C14_EmptyBatchNoEffect ==
    [][\A w \in Workers :
         (log[w].sel = "none" /\ log'[w].kind \in CollectKinds
             /\ log'[w].sel = "ok" /\ Len(log'[w].batch) = 0) =>
            /\ run'[w].pc = "done"
            /\ log'[w].outcome = "returned"
            /\ ~log'[w].wrote
            /\ \A p \in Posts : log'[w].prov[p] = "none" /\ log'[w].fb[p] = "none"
            /\ faultsLeft' = faultsLeft
            /\ post_feedback' = post_feedback
            /\ product_performance' = product_performance
            /\ style_performance' = style_performance
            /\ generated_posts' = generated_posts
            /\ lastFb' = lastFb
      ]_vars

\* a run has returned on an empty selection while the store held a
\* published post and its collected feedback row
C14_Witness ==
    \E w \in Workers :
        /\ Done(w) /\ CollectRun(w)
        /\ log[w].sel = "ok" /\ Len(log[w].batch) = 0
        /\ log[w].outcome = "returned"
        /\ \E p \in DOMAIN generated_posts : generated_posts[p].status = "PUBLISHED"
        /\ \E r \in post_feedback : r.collected_at # NoNum

\* a channel that is neither NULL nor empty
ChannelSet(c) == c # Null /\ c # ""

\* C15 (eligible-post invariant): every PUBLISHED post has a media id and a
\* non-empty channel, and so has every post (or feedback row) in the batch of a
\* collection run and every result the run builds.
C15_EligiblePosts ==
    /\ \A p \in DOMAIN generated_posts :
          generated_posts[p].status = "PUBLISHED" =>
             /\ generated_posts[p].meta_post_id # NoMedia
             /\ ChannelSet(generated_posts[p].channel_published)
    /\ \A w \in Workers :
          /\ log[w].kind \in {"loop1", "loop2"} =>
                /\ \A i \in 1..Len(log[w].batch) :
                      /\ log[w].batch[i].meta_post_id # NoMedia
                      /\ ChannelSet(log[w].batch[i].channel_published)
                /\ \A i \in 1..Len(run[w].results) :
                      /\ run[w].results[i].ig_media_id # NoMedia
                      /\ ChannelSet(run[w].results[i].channel)
          /\ log[w].kind = "collect" =>
                \A i \in 1..Len(log[w].batch) :
                   /\ log[w].batch[i].ig_media_id # NoMedia
                   /\ ChannelSet(log[w].batch[i].channel)

\* two posts were published (in a dry run, with simulated media ids) and both
\* were processed by one collection run
C15_Witness ==
    /\ \E p \in DOMAIN generated_posts :
          /\ generated_posts[p].status = "PUBLISHED"
          /\ generated_posts[p].meta_post_id.tag = "dryrun"
    /\ \E w \in Workers :
          /\ Done(w) /\ CollectRun(w) /\ Len(log[w].batch) = 2
          /\ log[w].outcome = "returned"

\* C16 (run summary): a collection run that did not fail at selection returns
\* a summary whose `attempted` is the number of posts selected for the batch.
C16_RunSummary ==
    \A w \in Workers :
        (Done(w) /\ CollectRun(w) /\ log[w].sel = "ok") =>
            /\ log[w].ret # Undefined
            /\ log[w].ret # "none"
            /\ log[w].ret.attempted = Len(log[w].batch)

\* C17 (performance score): the score each variant computes from a post's
\* metrics is likes + 2 * comments (a missing count is 0), 0 for (0, 0),
\* whatever the other metric fields hold.
C17_PerfScore ==
    run[Scorer].pc \in {"scored_collect", "scored_loop"} =>
        LET m == run[Scorer].metrics
            l == IF m.like_count = NoNum THEN 0 ELSE m.like_count
            c == IF m.comments_count = NoNum THEN 0 ELSE m.comments_count
        IN  /\ run[Scorer].perf = l + c + c
            /\ (l = 0 /\ c = 0) => run[Scorer].perf = 0

\* the loop variant scored 3 likes, 4 comments, 7 impressions as 11
C17_Witness ==
    /\ run[Scorer].pc = "scored_loop"
    /\ run[Scorer].metrics = [like_count |-> 3, comments_count |-> 4, impressions |-> 7]
    /\ run[Scorer].perf = 11

\* sum of the scores of the results at the indices in `idx`
RECURSIVE ScoreSum(_, _)
ScoreSum(rs, idx) ==
    IF idx = {} THEN 0
    ELSE LET i == CHOOSE j \in idx : TRUE
             m == rs[i].metrics
         IN  NumOr0(m.like_count) + 2 * NumOr0(m.comments_count)
               + ScoreSum(rs, idx \ {i})

\* sum of the totals a map holds for the keys in `keys`
RECURSIVE SumValues(_, _)
SumValues(f, keys) ==
    IF keys = {} THEN 0
    ELSE LET k == CHOOSE x \in keys : TRUE IN f[k] + SumValues(f, keys \ {k})

ResultsOfProduct(rs, pid) == {i \in 1..Len(rs) : rs[i].product_id = pid}
ResultsOfStyle(rs, k) ==
    {i \in 1..Len(rs) :
        /\ rs[i].channel = k[2]
        /\ k[1] = (IF rs[i].style \in {"", Null} THEN "unknown" ELSE rs[i].style)}

\* C18 (in-batch accumulation in runFeedbackLoopPipeline): the product upsert
\* of a run writes, for exactly the products of the run's collected posts, the
\* sum of the scores of those posts, and the style upsert writes, for exactly
\* their style+channel keys, the sum of the scores of the posts of that key; no
\* other row is touched, and the product totals add up to the style totals.
C18_InBatchAccumulation ==
    [][\A w \in Workers :
         LET rs == run[w].results IN
         /\ (run[w].pc = "fl_products" /\ run'[w].pc = "fl_styles"
                /\ faultsLeft' = faultsLeft) =>
               \A pid \in Products :
                   IF ResultsOfProduct(rs, pid) # {}
                   THEN product_performance'[pid]
                           = DoubleOf(ScoreSum(rs, ResultsOfProduct(rs, pid)))
                   ELSE product_performance'[pid] = product_performance[pid]
         /\ (run[w].pc = "fl_styles" /\ run'[w].pc = "done"
                /\ faultsLeft' = faultsLeft) =>
               /\ \A k \in StyleKeys :
                     IF ResultsOfStyle(rs, k) # {}
                     THEN style_performance'[k].perf_score
                             = ScoreSum(rs, ResultsOfStyle(rs, k))
                     ELSE style_performance'[k] = style_performance[k]
               /\ SumValues(ProdMap(rs), DOMAIN ProdMap(rs))
                     = SumValues(StyleMap(rs), DOMAIN StyleMap(rs))
               /\ SumValues(ProdMap(rs), DOMAIN ProdMap(rs)) = ScoreSum(rs, 1..Len(rs))
      ]_vars

\* a run over p1, p2, p3 with their real metrics: product 42 got 5 + 4,
\* product 7 got 2, boho|IG got 5 + 2, unknown|IG got 4
C18_Witness ==
    \E w \in Workers :
        /\ Done(w) /\ log[w].kind \in {"loop1", "loop2"} /\ Len(log[w].batch) = 3
        /\ product_performance[42] = DoubleOf(9)
        /\ product_performance[7] = DoubleOf(2)
        /\ style_performance[<<"boho", "IG">>] # NoRow
        /\ style_performance[<<"boho", "IG">>].perf_score = 7
        /\ style_performance[<<"unknown", "IG">>] # NoRow
        /\ style_performance[<<"unknown", "IG">>].perf_score = 4

\* C19 (at-most-once folding): over the runs of runFeedbackCollectJob, overlapping
\* or not, a post's score is upserted into its product aggregate at most once
\* and into its style aggregate at most once.
C19_FoldedAtMostOnce ==
    \A p \in Posts : folds[p].product <= 1 /\ folds[p].style <= 1

\* C20 (provider failure leaves a pending row pending): in a run of
\* runFeedbackCollectJob, a row whose provider call failed is in post_feedback
\* exactly as it was selected (same metrics, collected_at null), nothing was
\* written or folded for its post, and the pending selection returns it again.
C20_ProviderFailureKeepsPending ==
    \A w \in Workers : log[w].kind = "collect" =>
        \A i \in 1..Len(log[w].batch) :
            LET row == log[w].batch[i]
                p == row.generated_post_id
            IN  log[w].prov[p] = "fail" =>
                   /\ row \in post_feedback
                   /\ row.collected_at = NoNum
                   /\ log[w].fb[p] = "none"
                   /\ log[w].foldP[p] = NoNum /\ log[w].foldS[p] = NoNum
                   /\ \A s \in SelectPending(PendingLimit) : row \in Range(s)

\* with a credential, the provider call failed for the row of p1; the run went
\* on, collected and folded p2, and returned; the row of p1 is still pending
C20_Witness ==
    \E w \in Workers :
        /\ metaEnabled
        /\ Done(w) /\ log[w].kind = "collect" /\ log[w].outcome = "returned"
        /\ BatchPos(w, "p1") = 1 /\ BatchPos(w, "p2") = 2
        /\ log[w].prov["p1"] = "fail"
        /\ log[w].foldP["p2"] = 4
        /\ \E r \in FeedbackOf("p1") : r.collected_at = NoNum /\ r.metrics = EmptyMetrics
        /\ \E r \in FeedbackOf("p2") : r.collected_at # NoNum

\* --------------------------------------------- concurrent publish requests
\* Two processes run runPublishPostPipeline at the same time, each for any post
\* id, over the drafted posts; no call fails.
InitPub ==
    /\ generated_posts = [p \in DraftedPosts |-> DraftPost]
    /\ post_feedback = {}
    /\ product_performance = [pid \in Products |-> NoRow]
    /\ style_performance = [k \in StyleKeys |-> NoRow]
    /\ nextId = 1
    /\ now = 0
    /\ metaEnabled = TRUE
    /\ dryRun \in BOOLEAN
    /\ faultsLeft = 0
    /\ run = [w \in Workers |-> IdleRun]
    /\ log = [w \in Workers |-> NoLog]
    /\ runs = 0
    /\ pubs = 0
    /\ mediaSeq = [p \in Posts |-> 0]
    /\ lastFb = [p \in Posts |-> NoRow]
    /\ prodHist = [pid \in Products |-> NoWrites]
    /\ race = NoRow
    /\ styleObs = [k \in StyleKeys |-> NoObs]
    /\ ema = NoRow
    /\ folds = [p \in Posts |-> NoFolds]

NextPub ==
    \E w \in Workers :
        \/ \E p \in Posts : PB_LoadPost(w, p)
        \/ PB_LoadProduct(w)
        \/ PB_CreateMedia(w)
        \/ PB_ReadCreateBody(w)
        \/ PB_PublishMedia(w)
        \/ PB_ReadPublishBody(w)
        \/ PB_UpdatePost(w)
        \/ PB_InsertSeed(w)
        \/ Settle(w)

SpecPub == InitPub /\ [][NextPub]_vars

\* the seed rows of post_feedback that belong to post p
SeedRowsOf(p) == {r \in post_feedback : r.generated_post_id = p}

\* C21 (publish at most once): over every interleaving of runPublishPostPipeline
\* invocations for one generated post, the platform published at most one media
\* for the post and post_feedback holds at most one seed row for it.
C21_PublishAtMostOnce ==
    \A p \in Posts :
        /\ mediaSeq[p] <= 1
        /\ Cardinality(SeedRowsOf(p)) <= 1

====
